---- MODULE Spec2Model ----
(***************************************************************************)
(* Model of the collection pipeline of blog-toolkit: the crawler           *)
(* (src/blog_toolkit/crawler.py), the collector                            *)
(* (src/blog_toolkit/collector.py) and the part of the store they use      *)
(* (src/blog_toolkit/database.py).                                         *)
(*                                                                         *)
(* Python values are modelled as follows.  None is the string "None".      *)
(* URLs are opaque names; the string tests the code makes on them          *)
(* ("substack.com" in url, url.endswith("/feed"), ...) are membership in   *)
(* the sets SubstackUrls and FeedSuffixUrls.  A candidate post is the      *)
(* record [url, title]: url is the key, title stands for every field that  *)
(* is copied from the candidate into the Post row.  What the network and   *)
(* the rendering tool answer during one call is the record `net`, an input *)
(* of the call.                                                            *)
(***************************************************************************)
EXTENDS Naturals, Integers, Sequences, FiniteSets, TLC

None == "None"

----
(* Bounds of the model *)

\* longest list of entries a feed answers with
MaxFeed == 2
\* longest list of posts one fetched page holds
MaxPage == 2
\* number of collect / update calls in one behaviour
MaxCalls == 2
\* stands for the interpreter's recursion limit
RecursionLimit == 2
\* number of calls that step through the crawler in one behaviour
MaxThreads == 2
\* largest rss_post_count a probe is given
MaxKnown == 2
\* largest number of tag tokens in a text
MaxTags == 1
\* number of pages a feed server has
MaxFeedPages == 2
\* largest REQUEST_DELAY, in seconds
MaxDelay == 2

----
(* Program constants *)

\* crawl_blog: while page <= 10
LAST_PAGE == 10
\* quick_crawl_check(..., max_pages_to_check=3) / collector call site
MAX_PAGES_TO_CHECK == 3
\* crawl_substack_with_browser: for scroll_num in range(15)
SCROLL_ROUNDS == 15
\* _find_archive_pages: links[:5]
ARCHIVE_LINKS == 5
\* quick_crawl_check: crawl_substack_with_browser(blog_url, max_posts=10)
QUICK_BROWSER_POSTS == 10
\* _collect_via_rss: crawl_blog(blog_url, max_posts=200)
FULL_CRAWL_POSTS == 200
\* collect_blog: reading_time = max(1, word_count // 200)
WORDS_PER_MINUTE == 200
\* parse_feed(feed_url, max_pages=10)
MAX_FEED_PAGES == 10
\* Config.REQUEST_RETRIES, default "3"
REQUEST_RETRIES == 3

----
(* Sequence helpers *)

Range(s) == {s[i] : i \in 1..Len(s)}

Take(s, n) == SubSeq(s, 1, IF n < Len(s) THEN n ELSE Len(s))

Urls(s) == {s[i].url : i \in 1..Len(s)}

\* sequences over S of length at most n
SeqUpTo(S, n) == UNION {[1..k -> S] : k \in 0..n}

----
(* URLs.  Page URLs of one blog are numbers: 1 is the blog URL itself,      *)
(* n in 2..LAST_PAGE is blog_url + "/page/n/", any other number is a page   *)
(* that only an archive link of the root page leads to, and NoHref is an    *)
(* anchor without href.                                                     *)

BlogUrls == {"blog", "substack"}
FeedUrls == {"blog/feed", "blog/atom", "substack/feed"}
\* "substack.com" in url.lower()
SubstackUrls == {"substack", "substack/feed"}
\* url.endswith((".xml", ".rss", ".atom", "/feed", "/rss"))
FeedSuffixUrls == {"blog/feed", "substack/feed"}
PostUrls == {"u1", "u2"}
Titles == {"a", "b"}

IsSubstack(url) == url \in SubstackUrls

ROOT == 1
NoHref == 0

\* requests.get(page_url): the response of the site for a page URL
NotFound == [status |-> "404", links |-> <<>>, containers |-> <<>>]

Fetch(site, page) ==
  IF page \in DOMAIN site.pages THEN site.pages[page] ELSE NotFound

----
(* crawler.py: the generic HTTP path *)

RECURSIVE DedupByUrl(_, _)
\* the seen_urls loop of the Substack shortcut: first anchor of each URL
DedupByUrl(links, seen) ==
  IF links = <<>> THEN <<>>
  ELSE IF Head(links).url = "" \/ Head(links).url \in seen
       THEN DedupByUrl(Tail(links), seen)
       ELSE <<Head(links)>> \o DedupByUrl(Tail(links), seen \cup {Head(links).url})

\* _extract_post_from_container returns a post (TRUE) or None (FALSE):
\* if not url: return None
ExtractPostFromContainer(container) == container.url # ""

RECURSIVE ExtractContainers(_)
\* for container in containers: post = ...; if post: posts.append(post)
ExtractContainers(containers) ==
  IF containers = <<>> THEN <<>>
  ELSE IF ExtractPostFromContainer(Head(containers))
       THEN <<Head(containers)>> \o ExtractContainers(Tail(containers))
       ELSE ExtractContainers(Tail(containers))

\* the body of _extract_posts_from_page after the visited test
ExtractFromResponse(resp, substack) ==
  IF resp.status = "404" THEN <<>>
  ELSE IF resp.status # "ok" THEN <<>>
  ELSE LET shortcut == DedupByUrl(resp.links, {})
       IN IF substack /\ shortcut # <<>> THEN shortcut
          ELSE ExtractContainers(resp.containers)

\* _extract_posts_from_page(page_url, base_url) on self.visited_urls
ExtractPostsFromPage(page, site, substack, visited) ==
  IF page \in visited
  THEN [posts |-> <<>>, visited |-> visited, fetched |-> <<>>]
  ELSE [posts |-> ExtractFromResponse(Fetch(site, page), substack),
        visited |-> visited \cup {page},
        fetched |-> <<page>>]

RECURSIVE AbsorbAll(_, _, _)
\* the loop over page_posts without the break of line 473
AbsorbAll(posts, page_posts, max_posts) ==
  IF page_posts = <<>> THEN posts
  ELSE LET post == Head(page_posts)
           fresh == post.url # "" /\ post.url \notin (Urls(posts) \ {""})
       IN AbsorbAll(IF fresh THEN Append(posts, post) ELSE posts,
                    Tail(page_posts), max_posts)

RECURSIVE AbsorbPage(_, _, _)
\* for post in page_posts: append when the URL is new; break at max_posts
AbsorbPage(posts, page_posts, max_posts) ==
  IF page_posts = <<>> THEN posts
  ELSE LET post == Head(page_posts)
           fresh == post.url # "" /\ post.url \notin (Urls(posts) \ {""})
           posts2 == IF fresh THEN Append(posts, post) ELSE posts
       IN IF fresh /\ max_posts > 0 /\ Len(posts2) >= max_posts
          THEN posts2
          ELSE AbsorbPage(posts2, Tail(page_posts), max_posts)

RECURSIVE DedupKeys(_, _)
\* if full_url not in archive_urls: archive_urls.append(full_url)
DedupKeys(keys, acc) ==
  IF keys = <<>> THEN acc
  ELSE IF Head(keys) = NoHref \/ Head(keys) \in Range(acc)
       THEN DedupKeys(Tail(keys), acc)
       ELSE DedupKeys(Tail(keys), Append(acc, Head(keys)))

\* _find_archive_pages(blog_url)
FindArchivePages(site) ==
  IF Fetch(site, ROOT).status # "ok" THEN <<>>
  ELSE DedupKeys(Take(site.href_links, ARCHIVE_LINKS)
                   \o Take(site.class_links, ARCHIVE_LINKS), <<>>)

\* [blog_url + "/page/n/" for n in from..to]
PageUrls(from, to) == [i \in 1..(IF to >= from THEN to - from + 1 ELSE 0) |-> from + i - 1]

\* a turn of the loop of quick_crawl_check that gives up at a page that
\* answers 404
QuickStepStopAt404(st, site, substack, rss_post_count) ==
  LET x == ExtractPostsFromPage(Head(st.urls), site, substack, st.visited)
      posts2 == AbsorbPage(st.posts, x.posts, 0)
  IN [urls |-> IF Fetch(site, Head(st.urls)).status = "404" THEN <<>>
               ELSE Tail(st.urls),
      posts |-> posts2, visited |-> x.visited,
      fetched |-> st.fetched \o x.fetched,
      returned |-> Len(posts2) > rss_post_count]

\* a turn of the loop of quick_crawl_check without the early return of
\* lines 422-424
QuickStepNoEarlyReturn(st, site, substack, rss_post_count) ==
  LET x == ExtractPostsFromPage(Head(st.urls), site, substack, st.visited)
  IN [urls |-> Tail(st.urls), posts |-> AbsorbPage(st.posts, x.posts, 0),
      visited |-> x.visited, fetched |-> st.fetched \o x.fetched,
      returned |-> FALSE]

\* one turn of the for url in urls_to_check loop of quick_crawl_check:
\* the page is read, its new posts are kept, and the loop is left at once
\* when more posts than the feed had are known
QuickStep(st, site, substack, rss_post_count) ==
  LET x == ExtractPostsFromPage(Head(st.urls), site, substack, st.visited)
      posts2 == AbsorbPage(st.posts, x.posts, 0)
  IN [urls |-> Tail(st.urls), posts |-> posts2, visited |-> x.visited,
      fetched |-> st.fetched \o x.fetched,
      returned |-> Len(posts2) > rss_post_count]

RECURSIVE QuickLoop(_, _, _, _)
\* the for url in urls_to_check loop of quick_crawl_check
QuickLoop(st, site, substack, rss_post_count) ==
  IF st.returned \/ st.urls = <<>> THEN st
  ELSE QuickLoop(QuickStep(st, site, substack, rss_post_count),
                 site, substack, rss_post_count)

\* lines 422-427: what the regular check returns
QuickResult(st, rss_post_count) ==
  [has_more |-> Len(st.posts) > rss_post_count, count |-> Len(st.posts),
   posts |-> st.posts, fetched |-> st.fetched, visited |-> st.visited]

\* the regular check with >= in place of >
QuickCheckAtLeast(blog_url, rss_post_count, max_pages_to_check, site) ==
  QuickResult(QuickLoop([urls |-> <<ROOT>> \o PageUrls(2, max_pages_to_check),
                         posts |-> <<>>, visited |-> {}, fetched |-> <<>>,
                         returned |-> FALSE],
                        site, IsSubstack(blog_url), rss_post_count - 1),
              rss_post_count - 1)

\* quick_crawl_check, lines 401-427: the regular check
QuickCheckRegular(blog_url, rss_post_count, max_pages_to_check, site) ==
  QuickResult(QuickLoop([urls |-> <<ROOT>> \o PageUrls(2, max_pages_to_check),
                         posts |-> <<>>, visited |-> {}, fetched |-> <<>>,
                         returned |-> FALSE],
                        site, IsSubstack(blog_url), rss_post_count),
              rss_post_count)

\* one turn of the for url in urls_to_visit loop of crawl_blog
CrawlStep(st, site, substack, max_posts) ==
  LET x == ExtractPostsFromPage(Head(st.urls), site, substack, st.visited)
  IN [urls |-> Tail(st.urls),
      posts |-> AbsorbPage(st.posts, x.posts, max_posts),
      visited |-> x.visited, fetched |-> st.fetched \o x.fetched]

RECURSIVE CrawlLoop(_, _, _, _)
\* the for url in urls_to_visit loop of crawl_blog
CrawlLoop(st, site, substack, max_posts) ==
  IF st.urls = <<>> \/ (max_posts > 0 /\ Len(st.posts) >= max_posts) THEN st
  ELSE CrawlLoop(CrawlStep(st, site, substack, max_posts),
                 site, substack, max_posts)

\* the generic crawl with the /page/n/ URLs ahead of the archive pages
CrawlGenericPagesFirst(blog_url, max_posts, site) ==
  CrawlLoop([urls |-> <<ROOT>> \o PageUrls(2, LAST_PAGE) \o FindArchivePages(site),
             posts |-> <<>>, visited |-> {}, fetched |-> <<>>],
            site, IsSubstack(blog_url), max_posts)

\* crawl_blog, lines 444-479: the generic crawl
CrawlGeneric(blog_url, max_posts, site) ==
  CrawlLoop([urls |-> <<ROOT>> \o FindArchivePages(site) \o PageUrls(2, LAST_PAGE),
             posts |-> <<>>, visited |-> {}, fetched |-> <<>>],
            site, IsSubstack(blog_url), max_posts)

----
(* crawler.py: the rendering tool (agent-browser).  net.tool gives, for     *)
(* each command, how subprocess.run ends: "ok" (returncode 0), "nonzero",   *)
(* "timeout" (TimeoutExpired), "notfound" (FileNotFoundError) or "error"    *)
(* (any other exception), and what the eval command prints.                 *)

Outcomes == {"ok", "nonzero", "timeout", "notfound", "error"}

Raises(outcome) == outcome \in {"timeout", "notfound", "error"}

\* the parse chain of lines 195-237: [links, exc]
ParseEvalOutput(out) ==
  CASE out.kind = "array"    -> [links |-> out.items, exc |-> None]
    [] out.kind = "envelope" -> [links |-> out.items, exc |-> None]
    [] out.kind = "notlist"  -> [links |-> <<>>, exc |-> None]
    [] out.kind = "logline"  -> [links |-> out.items, exc |-> None]
    [] out.kind = "embedded" -> [links |-> out.items, exc |-> None]
    [] out.kind = "badjson"  -> [links |-> <<>>, exc |-> "JSONDecodeError"]
    [] OTHER                 -> [links |-> <<>>, exc |-> None]

RECURSIVE AddLinks(_, _, _)
\* for item in post_links: lines 241-258 and 321-338
AddLinks(posts, links, max_posts) ==
  IF links = <<>> THEN posts
  ELSE LET item == Head(links)
           fresh == item.url # "" /\ item.url \notin Urls(posts)
           posts2 == IF fresh THEN Append(posts, item) ELSE posts
       IN IF fresh /\ max_posts > 0 /\ Len(posts2) >= max_posts
          THEN posts2
          ELSE AddLinks(posts2, Tail(links), max_posts)

\* one turn of the for scroll_num in range(15) loop, lines 267-343: an
\* exception of scroll or eval leaves the loop for the handler of line 348,
\* reaching max_posts leaves it by break
ScrollStep(st, tool, max_posts) ==
  IF Raises(tool.scroll)
  THEN [st EXCEPT !.cmds = Append(@, "scroll"), !.left = TRUE]
  ELSE IF Raises(tool.eval_more)
  THEN [st EXCEPT !.cmds = @ \o <<"scroll", "eval">>, !.left = TRUE]
  ELSE LET parsed == ParseEvalOutput(tool.out_more)
           posts2 == IF tool.eval_more = "ok" /\ parsed.exc = None
                     THEN AddLinks(st.posts, parsed.links, max_posts)
                     ELSE st.posts
       IN [round |-> st.round + 1, posts |-> posts2,
           cmds |-> st.cmds \o <<"scroll", "eval">>,
           left |-> max_posts > 0 /\ Len(posts2) >= max_posts]

RECURSIVE ScrollLoop(_, _, _)
\* for scroll_num in range(15): lines 266-343
ScrollLoop(st, tool, max_posts) ==
  IF st.left \/ st.round > SCROLL_ROUNDS THEN st
  ELSE ScrollLoop(ScrollStep(st, tool, max_posts), tool, max_posts)

\* lines 192-349: what the first eval printed, then the scrolling
ParseAndScroll(cmds, tool, max_posts) ==
  LET parsed == ParseEvalOutput(tool.out)
      posts == AddLinks(<<>>, parsed.links, max_posts)
  IN IF tool.eval # "ok" THEN [posts |-> <<>>, cmds |-> cmds]
     ELSE IF parsed.exc # None THEN [posts |-> <<>>, cmds |-> cmds]
     ELSE IF max_posts = 0 \/ Len(posts) < max_posts
          THEN ScrollLoop([round |-> 1, posts |-> posts, cmds |-> cmds,
                           left |-> FALSE], tool, max_posts)
          ELSE [posts |-> posts, cmds |-> cmds]

\* lines 123-135: open the archive page, else the main page
OpenPages(tool) ==
  IF Raises(tool.open) THEN [cmds |-> <<"open">>, exc |-> tool.open]
  ELSE IF tool.open = "nonzero"
       THEN [cmds |-> <<"open", "open">>,
             exc |-> IF Raises(tool.open_main) THEN tool.open_main ELSE None]
       ELSE [cmds |-> <<"open">>, exc |-> None]

\* lines 115-361, the try block: [posts, cmds, exc]; exc is what reaches
\* the handlers of lines 363-370
BrowserSession(tool, max_posts) ==
  LET opened == OpenPages(tool)
      cmds1 == opened.cmds \o <<"find", "eval">>
      body == ParseAndScroll(cmds1, tool, max_posts)
  IN IF opened.exc # None
     THEN [posts |-> <<>>, cmds |-> opened.cmds, exc |-> opened.exc]
     ELSE IF Raises(tool.eval)
     THEN [posts |-> <<>>, cmds |-> cmds1, exc |-> tool.eval]
     ELSE [posts |-> body.posts, cmds |-> Append(body.cmds, "close"),
           exc |-> None]

\* lines 111-372 of crawl_substack_with_browser once the tool is known to
\* be there: the session, and the handler of line 367 that returns what
\* crawl_blog returns (fallback)
BrowserCrawl(session, fallback) ==
  IF session.exc = "error"
  THEN [posts |-> fallback.posts, exc |-> fallback.exc,
        cmds |-> session.cmds \o fallback.cmds, fetched |-> fallback.fetched,
        runs |-> fallback.runs]
  ELSE [posts |-> session.posts, exc |-> None, cmds |-> session.cmds,
        fetched |-> <<>>, runs |-> <<>>]

\* crawl_blog with the test of line 441 reduced to the Substack test: the
\* tool is run whether or not it was found
CrawlBlogBrowserFirst(blog_url, max_posts, net, abp, depth) ==
  IF IsSubstack(blog_url)
  THEN BrowserCrawl(BrowserSession(net.tool, max_posts),
                    [posts |-> <<>>, exc |-> None, cmds |-> <<>>, fetched |-> <<>>,
                     runs |-> <<>>])
  ELSE LET g == CrawlGeneric(blog_url, max_posts, net.site)
       IN [posts |-> g.posts, exc |-> None, cmds |-> <<>>, fetched |-> g.fetched,
           runs |-> <<g.visited>>]

RECURSIVE CrawlBlog(_, _, _, _, _)
\* crawl_blog(blog_url, max_posts); line 442 hands a Substack URL to
\* crawl_substack_with_browser, whose handler calls crawl_blog again: a
\* call chain deeper than the recursion limit ends in RecursionError
CrawlBlog(blog_url, max_posts, net, abp, depth) ==
  IF depth > RecursionLimit
  THEN [posts |-> <<>>, exc |-> "RecursionError", cmds |-> <<>>, fetched |-> <<>>,
        runs |-> <<>>]
  ELSE IF IsSubstack(blog_url) /\ abp # None
  THEN BrowserCrawl(BrowserSession(net.tool, max_posts),
                    CrawlBlog(blog_url, max_posts, net, abp, depth + 1))
  ELSE LET g == CrawlGeneric(blog_url, max_posts, net.site)
       IN [posts |-> g.posts, exc |-> None, cmds |-> <<>>, fetched |-> g.fetched,
           runs |-> <<g.visited>>]

\* crawl_substack_with_browser(blog_url, max_posts)
CrawlSubstackWithBrowser(blog_url, max_posts, net, abp, depth) ==
  IF abp = None THEN CrawlBlog(blog_url, max_posts, net, abp, depth + 1)
  ELSE BrowserCrawl(BrowserSession(net.tool, max_posts),
                    CrawlBlog(blog_url, max_posts, net, abp, depth + 1))

\* lines 388-399 of quick_crawl_check: what the browser check `b` makes of
\* the answer, `r` being the regular check of lines 401-427 that runs when
\* the browser check is not tried or raises
BrowserCheck(browser, b, r) ==
  IF browser /\ b.exc = None
  THEN [has_more |-> Len(b.posts) > 0, count |-> Len(b.posts),
        posts |-> b.posts, path |-> "browser",
        cmds |-> b.cmds, fetched |-> b.fetched, runs |-> b.runs]
  ELSE [has_more |-> r.has_more, count |-> r.count,
        posts |-> r.posts, path |-> "regular",
        cmds |-> IF browser THEN b.cmds ELSE <<>>,
        fetched |-> (IF browser THEN b.fetched ELSE <<>>) \o r.fetched,
        runs |-> (IF browser THEN b.runs ELSE <<>>) \o <<r.visited>>]

\* quick_crawl_check(blog_url, rss_post_count, max_pages_to_check)
QuickCrawlCheck(blog_url, rss_post_count, max_pages_to_check, net, abp) ==
  BrowserCheck(IsSubstack(blog_url) /\ abp # None,
               CrawlSubstackWithBrowser(blog_url, QUICK_BROWSER_POSTS, net, abp, 0),
               QuickCheckRegular(blog_url, rss_post_count, max_pages_to_check,
                                 net.site))

----
(* database.py: the store.  blogs and posts are the two tables in id       *)
(* order: the row with id i is element i (no row is ever deleted).         *)

\* Blog(...) row as add_blog creates it
NewBlog(url, feed_url, collection_method) ==
  [url |-> url, feed_url |-> feed_url, collection_method |-> collection_method,
   last_collected_at |-> None]

\* Database.add_blog
AddBlog(blog_rows, url, feed_url, collection_method) ==
  Append(blog_rows, NewBlog(url, feed_url, collection_method))

\* Database.get_blog: the id of the row, or 0 for None
GetBlog(blog_rows, blog_id) ==
  IF blog_id \in 1..Len(blog_rows) THEN blog_id ELSE 0

\* a lookup that never finds the row
FindNoPost(post_rows, url) == 0

\* session.query(Post).filter(Post.url == url).first()
FindPost(post_rows, url) ==
  IF \E i \in 1..Len(post_rows) : post_rows[i].url = url
  THEN CHOOSE i \in 1..Len(post_rows) :
         /\ post_rows[i].url = url
         /\ \A j \in 1..(i - 1) : post_rows[j].url # url
  ELSE 0

\* Database.add_post: [rows, exc]; post_data holds the keyword arguments
\* url, title, content, word_count and reading_time.  title is
\* nullable=False, so a None title fails the commit and the session is
\* closed without a change.
AddPost(post_rows, blog_id, post_data) ==
  LET existing == FindPost(post_rows, post_data.url)
  IN IF post_data.title = None
     THEN [rows |-> post_rows, exc |-> "IntegrityError"]
     ELSE IF existing # 0
     THEN [rows |-> [post_rows EXCEPT ![existing].title = post_data.title,
                                      ![existing].content = post_data.content,
                                      ![existing].word_count = post_data.word_count,
                                      ![existing].reading_time = post_data.reading_time],
           exc |-> None]
     ELSE [rows |-> Append(post_rows, [blog_id |-> blog_id,
                                        url |-> post_data.url,
                                        title |-> post_data.title,
                                        content |-> post_data.content,
                                        word_count |-> post_data.word_count,
                                        reading_time |-> post_data.reading_time]),
           exc |-> None]

RECURSIVE GetPostsByBlog(_, _)
\* Database.get_posts_by_blog
GetPostsByBlog(post_rows, blog_id) ==
  IF post_rows = <<>> THEN <<>>
  ELSE IF Head(post_rows).blog_id = blog_id
       THEN <<Head(post_rows)>> \o GetPostsByBlog(Tail(post_rows), blog_id)
       ELSE GetPostsByBlog(Tail(post_rows), blog_id)

\* Database.update_blog_collection_time
UpdateBlogCollectionTime(blog_rows, blog_id, time) ==
  IF blog_id \in 1..Len(blog_rows)
  THEN [blog_rows EXCEPT ![blog_id].last_collected_at = time]
  ELSE blog_rows

----
(* collector.py *)

\* a detection that always answers rss
DetectAlwaysRss(net) == "rss"

\* _detect_best_method: net.detect is what discover_feed_url answers here
DetectBestMethod(net) == IF net.detect # None THEN "rss" ELSE "crawler"

\* feed_data.get("link") or feed_url.replace("/feed", "/")...
BlogUrlOfFeed(feed_data, feed_url) ==
  IF feed_data.link # "" THEN feed_data.link
  ELSE CASE feed_url = "blog/feed" -> "blog"
         [] feed_url = "substack/feed" -> "substack"
         [] OTHER -> feed_url

RECURSIVE NewPosts(_, _)
\* lines 253-257: the crawled posts whose URL the feed does not have
NewPosts(crawled_posts, rss_urls) ==
  IF crawled_posts = <<>> THEN <<>>
  ELSE LET post == Head(crawled_posts)
       IN IF post.url # "" /\ post.url \notin rss_urls
          THEN <<post>> \o NewPosts(Tail(crawled_posts), rss_urls \cup {post.url})
          ELSE NewPosts(Tail(crawled_posts), rss_urls)

\* a merge that appends every crawled post
MergeUnfiltered(entries, crawled_posts) == entries \o crawled_posts

\* lines 250-260: entries.extend(new_posts)
MergeCrawled(entries, crawled_posts) ==
  IF crawled_posts # <<>>
  THEN entries \o NewPosts(crawled_posts, Urls(entries))
  ELSE entries

\* lines 250-260 applied to what a crawl returned: [posts, crawled, exc,
\* log, cmds]; an exception of the crawl leaves _collect_via_rss
Merged(entries, crawl, log, cmds0) ==
  [posts |-> IF crawl.exc = None
             THEN MergeCrawled(entries, crawl.posts) ELSE <<>>,
   crawled |-> crawl.posts, exc |-> crawl.exc, log |-> log,
   cmds |-> cmds0 \o crawl.cmds, runs |-> crawl.runs]

\* lines 241-248: the quick check decides whether the full crawl runs
AfterQuickCheck(entries, quick, full) ==
  IF quick.has_more
  THEN [Merged(entries, full, <<"quick_check", "crawl">>, quick.cmds)
          EXCEPT !.runs = quick.runs \o @]
  ELSE [posts |-> entries, crawled |-> <<>>, exc |-> None,
        log |-> <<"quick_check">>, cmds |-> quick.cmds, runs |-> quick.runs]

\* the supplement with a quick check that is told the feed had no entry
SupplementKnownZero(entries, blog_url, is_substack, net, abp) ==
  IF is_substack /\ abp # None
  THEN Merged(entries,
              CrawlSubstackWithBrowser(blog_url, FULL_CRAWL_POSTS, net, abp, 0),
              <<"browser_crawl">>, <<>>)
  ELSE AfterQuickCheck(entries,
                       QuickCrawlCheck(blog_url, 0, MAX_PAGES_TO_CHECK, net, abp),
                       CrawlBlog(blog_url, FULL_CRAWL_POSTS, net, abp, 0))

\* lines 233-260 of _collect_via_rss: [posts, crawled, exc, log, cmds]
Supplement(entries, blog_url, is_substack, net, abp) ==
  IF is_substack /\ abp # None
  THEN Merged(entries,
              CrawlSubstackWithBrowser(blog_url, FULL_CRAWL_POSTS, net, abp, 0),
              <<"browser_crawl">>, <<>>)
  ELSE AfterQuickCheck(entries,
                       QuickCrawlCheck(blog_url, Len(entries),
                                       MAX_PAGES_TO_CHECK, net, abp),
                       CrawlBlog(blog_url, FULL_CRAWL_POSTS, net, abp, 0))

\* lines 219-262 of _collect_via_rss, the feed being parsed
Supplemented(feed_url, log, entries, supplement, sup) ==
  IF supplement
  THEN [feed_url |-> feed_url, posts |-> sup.posts, exc |-> sup.exc,
        log |-> log \o sup.log, cmds |-> sup.cmds,
        entries |-> entries, crawled |-> sup.crawled, runs |-> sup.runs]
  ELSE [feed_url |-> feed_url, posts |-> entries, exc |-> None,
        log |-> log, cmds |-> <<>>, entries |-> entries, crawled |-> <<>>,
        runs |-> <<>>]

\* _collect_via_rss(feed_url_or_blog_url, supplement_with_crawler):
\* [feed_url, posts, exc, log, cmds] and, for the merge, the feed's entries
\* and the crawler's list
CollectViaRss(feed_url_or_blog_url, supplement_with_crawler, net, abp) ==
  LET is_blog_url == feed_url_or_blog_url \notin FeedSuffixUrls
      feed_url == IF is_blog_url THEN net.discover ELSE feed_url_or_blog_url
      log1 == IF is_blog_url THEN <<"discover">> ELSE <<>>
      blog_url == IF is_blog_url THEN feed_url_or_blog_url
                  ELSE BlogUrlOfFeed(net.feed, feed_url)
  IN IF is_blog_url /\ net.discover = None
     THEN [feed_url |-> None, posts |-> <<>>, exc |-> None, log |-> log1,
           cmds |-> <<>>, entries |-> <<>>, crawled |-> <<>>, runs |-> <<>>]
     ELSE IF ~net.feed.parsed
     THEN [feed_url |-> feed_url, posts |-> <<>>, exc |-> None,
           log |-> Append(log1, "parse_feed"), cmds |-> <<>>,
           entries |-> <<>>, crawled |-> <<>>, runs |-> <<>>]
     ELSE Supplemented(feed_url, Append(log1, "parse_feed"), net.feed.entries,
                       supplement_with_crawler /\ Len(net.feed.entries) > 0
                         /\ blog_url # "",
                       Supplement(net.feed.entries, blog_url,
                                  IsSubstack(feed_url_or_blog_url), net, abp))

\* _collect_via_crawler(blog_url): [feed_url, posts, exc, log, cmds]
CollectViaCrawler(blog_url, net, abp) ==
  LET c == CrawlBlog(blog_url, 0, net, abp, 0)
  IN [feed_url |-> None, posts |-> c.posts, exc |-> c.exc,
      log |-> <<"crawl">>, cmds |-> c.cmds, entries |-> <<>>,
      crawled |-> c.posts, runs |-> c.runs]

\* a lookup that creates the blog without looking for its URL
AlwaysCreateBlog(blog_rows, blog_url, feed_url, collection_method) ==
  [rows |-> AddBlog(blog_rows, blog_url, feed_url, collection_method),
   id |-> Len(blog_rows) + 1]

\* _get_or_create_blog: [rows, id].  For a known URL the row object comes
\* from get_all_blogs, whose session is closed; the fields set on it
\* (lines 294-297) belong to no session, and the commit of the fresh
\* session of line 292 writes nothing.
GetOrCreateBlog(blog_rows, blog_url, feed_url, collection_method) ==
  IF \E i \in 1..Len(blog_rows) : blog_rows[i].url = blog_url
  THEN [rows |-> blog_rows,
        id |-> CHOOSE i \in 1..Len(blog_rows) :
                 /\ blog_rows[i].url = blog_url
                 /\ \A j \in 1..(i - 1) : blog_rows[j].url # blog_url]
  ELSE [rows |-> AddBlog(blog_rows, blog_url, feed_url, collection_method),
        id |-> Len(blog_rows) + 1]

\* Content.  A content value is the record [kind, html, tokens, clean]:
\* kind is "None", "empty" (the empty string) or "text"; for a text, html
\* tells whether is_html finds a tag in it, tokens is the number of
\* whitespace-delimited tokens of the text as it is, clean the number of
\* those clean_html leaves.

NoContent == [kind |-> "None", html |-> FALSE, tokens |-> 0, clean |-> 0]

EmptyString == [kind |-> "empty", html |-> FALSE, tokens |-> 0, clean |-> 0]

\* NULL in the integer columns word_count and reading_time
NullInt == -1

\* post_data.get("content")
ContentOf(post_data) ==
  IF "content" \in DOMAIN post_data THEN post_data.content ELSE NoContent

\* if not content
Falsy(content) == content.kind # "text"

\* content_cleaner.is_html
IsHtml(content) == IF Falsy(content) THEN FALSE ELSE content.html

\* content_cleaner.clean_html: plain text without the tags, stripped
CleanHtml(content) ==
  IF Falsy(content) \/ content.clean = 0 THEN EmptyString
  ELSE [kind |-> "text", html |-> FALSE, tokens |-> content.clean,
        clean |-> content.clean]

\* lines 82-84: content as it is handed to add_post
Cleaned(post_data) ==
  IF ~Falsy(ContentOf(post_data)) /\ IsHtml(ContentOf(post_data))
  THEN CleanHtml(ContentOf(post_data))
  ELSE ContentOf(post_data)

\* len(content.split())
WordCount(content) == content.tokens

\* max(1, word_count // 200)
ReadingTime(word_count) ==
  IF word_count \div WORDS_PER_MINUTE > 1
  THEN word_count \div WORDS_PER_MINUTE ELSE 1

\* the counts taken on the text before it is cleaned
PreparedUncleaned(post_data) ==
  LET raw == ContentOf(post_data)
      content == Cleaned(post_data)
  IN [url |-> post_data.url, title |-> post_data.title, content |-> content,
      word_count |-> IF Falsy(raw) THEN NullInt ELSE WordCount(raw),
      reading_time |-> IF Falsy(raw) THEN NullInt
                       ELSE ReadingTime(WordCount(raw))]

\* lines 81-107: the arguments of add_post for one candidate
Prepared(post_data) ==
  LET content == Cleaned(post_data)
  IN [url |-> post_data.url, title |-> post_data.title, content |-> content,
      word_count |-> IF Falsy(content) THEN NullInt ELSE WordCount(content),
      reading_time |-> IF Falsy(content) THEN NullInt
                       ELSE ReadingTime(WordCount(content))]

RECURSIVE AddPostsUnfiltered(_, _, _, _)
\* the ingestion loop without the existing_urls test
AddPostsUnfiltered(post_rows, blog_id, post_list, existing_urls) ==
  IF post_list = <<>> THEN [rows |-> post_rows, added_count |-> 0]
  ELSE LET r == AddPost(post_rows, blog_id, Prepared(Head(post_list)))
           rest == AddPostsUnfiltered(r.rows, blog_id, Tail(post_list),
                                      existing_urls)
       IN [rows |-> rest.rows,
           added_count |-> rest.added_count + (IF r.exc = None THEN 1 ELSE 0)]

RECURSIVE AddPostsAbortOnError(_, _, _, _)
\* the ingestion loop without the try of lines 80 and 148: the first
\* candidate add_post refuses ends the loop
AddPostsAbortOnError(post_rows, blog_id, post_list, existing_urls) ==
  IF post_list = <<>> THEN [rows |-> post_rows, added_count |-> 0]
  ELSE IF Head(post_list).url \in existing_urls
  THEN AddPostsAbortOnError(post_rows, blog_id, Tail(post_list), existing_urls)
  ELSE LET r == AddPost(post_rows, blog_id, Prepared(Head(post_list)))
           rest == AddPostsAbortOnError(r.rows, blog_id, Tail(post_list),
                                        existing_urls)
       IN IF r.exc # None THEN [rows |-> post_rows, added_count |-> 0]
          ELSE [rows |-> rest.rows, added_count |-> rest.added_count + 1]

RECURSIVE AddPosts(_, _, _, _)
\* the for post_data in posts loop of collect_blog (existing_urls = {})
\* and of update_blog: [rows, added_count]
AddPosts(post_rows, blog_id, post_list, existing_urls) ==
  IF post_list = <<>> THEN [rows |-> post_rows, added_count |-> 0]
  ELSE IF Head(post_list).url \in existing_urls
  THEN AddPosts(post_rows, blog_id, Tail(post_list), existing_urls)
  ELSE LET r == AddPost(post_rows, blog_id, Prepared(Head(post_list)))
           rest == AddPosts(r.rows, blog_id, Tail(post_list), existing_urls)
       IN [rows |-> rest.rows,
           added_count |-> rest.added_count + (IF r.exc = None THEN 1 ELSE 0)]

\* a source's answer with the method that is stored for it
Via(method, log0, source) ==
  [feed_url |-> source.feed_url, posts |-> source.posts, exc |-> source.exc,
   log |-> log0 \o source.log, cmds |-> source.cmds, method |-> method,
   runs |-> source.runs]

\* lines 57-68 of collect_blog: the candidates of the resolved method
Resolved(resolved, log0, rss, crawler) ==
  IF resolved = "rss" THEN Via("rss", log0, rss)
  ELSE IF resolved = "crawler" THEN Via("crawler", log0, crawler)
  ELSE IF rss.exc = None /\ rss.posts = <<>>
  THEN [feed_url |-> rss.feed_url, posts |-> crawler.posts,
        exc |-> crawler.exc, log |-> log0 \o rss.log \o crawler.log,
        cmds |-> rss.cmds \o crawler.cmds, method |-> "crawler",
        runs |-> rss.runs \o crawler.runs]
  ELSE Via(resolved, log0, rss)

\* lines 46-68 of collect_blog
CollectPosts(blog_url, method, net, abp) ==
  Resolved(IF method = "auto" THEN DetectBestMethod(net) ELSE method,
           IF method = "auto" THEN <<"detect">> ELSE <<>>,
           CollectViaRss(blog_url, TRUE, net, abp),
           CollectViaCrawler(blog_url, net, abp))

----
(* State.  A behaviour is a sequence of calls on one BlogCollector over    *)
(* one database.  `call` describes the last call: its arguments, what the  *)
(* sources answered, the collaborators it invoked (log), the tool commands *)
(* it spawned (cmds), the exception that reached the caller (exc) and the  *)
(* value returned (ret: a blog id or 0 for None in collect, the count in   *)
(* update).  `prev` is the call before it.  `now` is the clock: the number *)
(* of calls made so far.                                                   *)

VARIABLES blogs, posts, now, agent_browser_path, call, prev, visited_urls,
          threads

vars ==
  <<blogs, posts, now, agent_browser_path, call, prev, visited_urls, threads>>

\* self.visited_urls after a call: every run of the generic path (`runs`
\* holds the set each one left) starts by clearing it, lines 402 and 444
VisitedAfter(visited, runs) ==
  IF runs = <<>> THEN visited ELSE runs[Len(runs)]

NoCall ==
  [op |-> "none", url |-> "", blog_id |-> 0, method |-> "", detect |-> None,
   cands |-> <<>>, log |-> <<>>, cmds |-> <<>>, existing |-> {},
   exc |-> None, ret |-> 0]

\* BlogCollector.__init__ on a fresh database; _find_agent_browser decides
\* whether the tool is there
Init ==
  /\ blogs = <<>>
  /\ posts = <<>>
  /\ now = 0
  /\ agent_browser_path \in {None, "/usr/bin/agent-browser"}
  /\ call = NoCall
  /\ prev = NoCall
  /\ visited_urls = {}
  /\ threads = <<>>

\* collect_blog(blog_url, method)
CollectBlog(blog_url, method, net) ==
  \E c \in {CollectPosts(blog_url, method, net, agent_browser_path)} :
    \E blog \in {GetOrCreateBlog(blogs, blog_url, c.feed_url, c.method)} :
      LET added == AddPosts(posts, blog.id, c.posts, {})
          done == [op |-> "collect", url |-> blog_url, blog_id |-> 0,
                   method |-> method,
                   detect |-> IF method = "auto" THEN net.detect ELSE None,
                   cands |-> c.posts, log |-> c.log, cmds |-> c.cmds,
                   existing |-> {}, exc |-> c.exc, ret |-> 0,
                   site |-> net.site]
      IN /\ now' = now + 1
         /\ prev' = call
         /\ visited_urls' = VisitedAfter(visited_urls, c.runs)
         /\ UNCHANGED <<agent_browser_path, threads>>
         /\ IF c.exc # None \/ c.posts = <<>>
            THEN /\ call' = done
                 /\ UNCHANGED <<blogs, posts>>
            ELSE /\ blogs' = UpdateBlogCollectionTime(blog.rows, blog.id, now')
                 /\ posts' = added.rows
                 /\ call' = [done EXCEPT !.ret = blog.id]

\* lines 131-136 of update_blog: the source the stored method selects
UpdateSource(blog, net, abp) ==
  IF blog.collection_method = "rss" /\ blog.feed_url # None
  THEN CollectViaRss(blog.feed_url, TRUE, net, abp)
  ELSE CollectViaCrawler(blog.url, net, abp)

\* update_blog(blog_id)
UpdateBlog(blog_id, net) ==
  /\ now' = now + 1
  /\ prev' = call
  /\ UNCHANGED <<agent_browser_path, threads>>
  /\ IF GetBlog(blogs, blog_id) = 0
     THEN /\ call' = [NoCall EXCEPT !.op = "update", !.blog_id = blog_id,
                                    !.exc = "ValueError"]
          /\ UNCHANGED <<blogs, posts, visited_urls>>
     ELSE \E c \in {UpdateSource(blogs[blog_id], net, agent_browser_path)} :
            \E existing_urls \in {Urls(GetPostsByBlog(posts, blog_id))} :
              LET added == AddPosts(posts, blog_id, c.posts, existing_urls)
                  found == [op |-> "update", url |-> blogs[blog_id].url,
                            blog_id |-> blog_id,
                            method |-> blogs[blog_id].collection_method,
                            detect |-> None, cands |-> <<>>, log |-> c.log,
                            cmds |-> c.cmds, existing |-> {}, exc |-> c.exc,
                            ret |-> 0, site |-> net.site]
              IN /\ visited_urls' = VisitedAfter(visited_urls, c.runs)
                 /\ IF c.exc # None
                    THEN /\ call' = found
                         /\ UNCHANGED <<blogs, posts>>
                    ELSE /\ blogs' = UpdateBlogCollectionTime(blogs, blog_id, now')
                         /\ posts' = added.rows
                         /\ call' = [found EXCEPT !.cands = c.posts,
                                                  !.existing = existing_urls,
                                                  !.ret = added.added_count]

\* quick_crawl_check(blog_url, rss_post_count, max_pages_to_check) called
\* on the crawler directly
QuickCrawlCheckCall(blog_url, rss_post_count, net) ==
  \E q \in {QuickCrawlCheck(blog_url, rss_post_count, MAX_PAGES_TO_CHECK, net,
                            agent_browser_path)} :
    /\ call' = [op |-> "quick_crawl_check", url |-> blog_url,
                rss_post_count |-> rss_post_count, has_more |-> q.has_more,
                count |-> q.count, posts |-> q.posts, path |-> q.path,
                cmds |-> q.cmds, fetched |-> q.fetched, site |-> net.site]
    /\ now' = now + 1
    /\ prev' = call
    /\ visited_urls' = VisitedAfter(visited_urls, q.runs)
    /\ UNCHANGED <<blogs, posts, agent_browser_path, threads>>

\* crawl_substack_with_browser(blog_url, max_posts) called on the crawler
\* directly
CrawlSubstackCall(blog_url, max_posts, net) ==
  \E b \in {CrawlSubstackWithBrowser(blog_url, max_posts, net,
                                     agent_browser_path, 0)} :
    /\ call' = [op |-> "crawl_substack_with_browser", url |-> blog_url,
                max_posts |-> max_posts, tool |-> net.tool, site |-> net.site,
                posts |-> b.posts, cmds |-> b.cmds, fetched |-> b.fetched,
                exc |-> b.exc]
    /\ now' = now + 1
    /\ prev' = call
    /\ visited_urls' = VisitedAfter(visited_urls, b.runs)
    /\ UNCHANGED <<blogs, posts, agent_browser_path, threads>>

\* _collect_via_rss(feed_url_or_blog_url) on its own
CollectViaRssCall(feed_url_or_blog_url, net) ==
  \E r \in {CollectViaRss(feed_url_or_blog_url, TRUE, net, agent_browser_path)} :
    /\ call' = [op |-> "_collect_via_rss", url |-> feed_url_or_blog_url,
                feed_url |-> r.feed_url, entries |-> r.entries,
                crawled |-> r.crawled, posts |-> r.posts, log |-> r.log,
                cmds |-> r.cmds, exc |-> r.exc, net |-> net]
    /\ now' = now + 1
    /\ prev' = call
    /\ visited_urls' = VisitedAfter(visited_urls, r.runs)
    /\ UNCHANGED <<blogs, posts, agent_browser_path, threads>>

\* crawl_blog(blog_url, max_posts) called on the crawler directly;
\* max_posts = 0 stands for None
CrawlBlogCall(blog_url, max_posts, net) ==
  \E c \in {CrawlBlog(blog_url, max_posts, net, agent_browser_path, 0)} :
    /\ call' = [op |-> "crawl_blog", url |-> blog_url,
                max_posts |-> max_posts, tool |-> net.tool, site |-> net.site,
                posts |-> c.posts, cmds |-> c.cmds, fetched |-> c.fetched,
                exc |-> c.exc]
    /\ now' = now + 1
    /\ prev' = call
    /\ visited_urls' = VisitedAfter(visited_urls, c.runs)
    /\ UNCHANGED <<blogs, posts, agent_browser_path, threads>>

\* _find_archive_pages(blog_url) on its own
FindArchivePagesCall(blog_url, net) ==
  /\ call' = [op |-> "_find_archive_pages", url |-> blog_url,
              site |-> net.site, archive_urls |-> FindArchivePages(net.site),
              exc |-> None]
  /\ now' = now + 1
  /\ prev' = call
  /\ UNCHANGED <<blogs, posts, agent_browser_path, visited_urls, threads>>

----
(* What the network and the tool answer: the inputs of a call *)

Candidate(url, title) == [url |-> url, title |-> title]

\* what a feed entry or a page container can be
Cands == {Candidate(u, t) : u \in PostUrls, t \in Titles}
\* what the eval script returns: "title": null is a None title
ToolItems == {Candidate(u, t) : u \in PostUrls, t \in {"a", None}}
\* the containers of the pages a probe reads
ProbeCands == {Candidate(u, "a") : u \in PostUrls}

Page(status, links, containers) ==
  [status |-> status, links |-> links, containers |-> containers]

EmptySite == [pages |-> <<>>, href_links |-> <<>>, class_links |-> <<>>]

\* a site whose only page is the blog URL
OnePageSite(containers) ==
  [pages |-> <<Page("ok", containers, containers)>>,
   href_links |-> <<>>, class_links |-> <<>>]

NoFeed == [parsed |-> FALSE, link |-> "", entries |-> <<>>]

Feed(link, entries) == [parsed |-> TRUE, link |-> link, entries |-> entries]

Output(kind, items) == [kind |-> kind, items |-> items]

OutputKinds ==
  {"array", "envelope", "notlist", "logline", "embedded", "badjson", "empty"}

\* a tool whose commands all succeed and whose page shows `items`
Tool(items) ==
  [open |-> "ok", open_main |-> "ok", eval |-> "ok", scroll |-> "ok",
   eval_more |-> "ok", out |-> Output("array", items),
   out_more |-> Output("array", items)]

\* the feed discover_feed_url finds for a blog URL
FeedsOf(blog_url) ==
  IF IsSubstack(blog_url) THEN {"substack/feed"} ELSE {"blog/feed", "blog/atom"}

\* the blog answers with a feed and nothing else
FeedNets(blog_url) ==
  {[detect |-> f, discover |-> f, feed |-> Feed(blog_url, entries),
    site |-> EmptySite, tool |-> Tool(<<>>)] :
     f \in FeedsOf(blog_url), entries \in SeqUpTo(Cands, MaxFeed)}

\* the blog has no feed: its posts are on its page
SiteNets ==
  {[detect |-> None, discover |-> None, feed |-> NoFeed,
    site |-> OnePageSite(containers), tool |-> Tool(<<>>)] :
     containers \in SeqUpTo(Cands, MaxPage)}

\* the blog has no feed and its page is rendered by script
ToolNets ==
  {[detect |-> None, discover |-> None, feed |-> NoFeed,
    site |-> EmptySite, tool |-> Tool(items)] :
     items \in SeqUpTo(ToolItems, MaxPage)}

\* the feed is not found, not parseable or empty while the page has a post;
\* the two discover_feed_url calls of one collect need not agree
BrokenFeedNets(blog_url) ==
  {[detect |-> d, discover |-> f, feed |-> feed,
    site |-> OnePageSite(<<Candidate("u1", "a")>>),
    tool |-> Tool(<<Candidate("u1", "a")>>)] :
     d \in FeedsOf(blog_url) \cup {None},
     f \in FeedsOf(blog_url) \cup {None},
     feed \in {NoFeed, Feed(blog_url, <<>>)}}

\* a command of the tool fails while the feed has an entry
FailingToolNets(blog_url) ==
  {[detect |-> f, discover |-> f,
    feed |-> Feed(blog_url, <<Candidate("u1", "a")>>),
    site |-> EmptySite,
    tool |-> [Tool(<<Candidate("u2", "a")>>) EXCEPT !.open = o, !.eval = e]] :
     f \in {None, "substack/feed"} \cap (FeedsOf(blog_url) \cup {None}),
     o \in {"ok", "error"}, e \in {"ok", "timeout", "error"}}

Nets(blog_url) ==
  FeedNets(blog_url) \cup SiteNets \cup ToolNets \cup BrokenFeedNets(blog_url)
    \cup FailingToolNets(blog_url)

\* method is a str; the command line offers rss, crawler and auto
Methods == {"auto", "rss", "crawler", "hybrid"}

Collect ==
  /\ now < MaxCalls
  /\ \E blog_url \in BlogUrls, method \in Methods :
       \E net \in Nets(blog_url) : CollectBlog(blog_url, method, net)

Update ==
  /\ now < MaxCalls
  /\ \E blog_id \in 1..(Len(blogs) + 1) :
       \E net \in Nets(IF blog_id <= Len(blogs) THEN blogs[blog_id].url ELSE "blog") :
         UpdateBlog(blog_id, net)

Next == Collect \/ Update

Spec == Init /\ [][Next]_vars

----
(* feeds.py: parse_feed.  A feed server is a sequence of pages; page p is   *)
(* [probe, answer]: probe tells whether one of the four synthetic URLs of   *)
(* page p answers a HEAD request with status 200 and an XML content type,   *)
(* answer[a] is how the a-th feedparser.parse of the page ends:             *)
(* [raises, raw, entries], raw being the number of parsed.entries and       *)
(* entries what _parse_entry makes of them.                                 *)

NoPage == [parsed |-> FALSE, link |-> "", entries |-> <<>>]

\* what feedparser.parse answers for a page the server does not have
NoAnswer == [raises |-> FALSE, raw |-> 0, entries |-> <<>>]

ServerPage(server, page) ==
  IF page \in 1..Len(server) THEN server[page]
  ELSE [probe |-> FALSE, answer |-> [a \in 1..REQUEST_RETRIES |-> NoAnswer]]

\* a turn that gives up at the first attempt that raises
AttemptStepNoRetry(st, answer, retries, delay) ==
  LET o == answer[st.attempt + 1]
  IN IF o.raises \/ o.raw = 0
     THEN [st EXCEPT !.attempts = @ + 1, !.returned = TRUE]
     ELSE [st EXCEPT !.attempts = @ + 1, !.returned = TRUE,
                     !.data = [parsed |-> TRUE, link |-> "blog",
                               entries |-> o.entries]]

\* one turn of for attempt in range(self.retries); attempt counts from 0
AttemptStep(st, answer, retries, delay) ==
  LET o == answer[st.attempt + 1]
  IN IF o.raises
     THEN IF st.attempt < retries - 1
          THEN [st EXCEPT !.attempt = @ + 1, !.attempts = @ + 1,
                          !.waits = Append(@, delay * (st.attempt + 1))]
          ELSE [st EXCEPT !.attempts = @ + 1, !.returned = TRUE]
     ELSE IF o.raw = 0
     THEN [st EXCEPT !.attempts = @ + 1, !.returned = TRUE]
     ELSE [st EXCEPT !.attempts = @ + 1, !.returned = TRUE,
                     !.data = [parsed |-> TRUE, link |-> "blog",
                               entries |-> o.entries]]

RECURSIVE AttemptLoop(_, _, _, _)
\* for attempt in range(self.retries): lines 114-150
AttemptLoop(st, answer, retries, delay) ==
  IF st.returned \/ st.attempt >= retries THEN st
  ELSE AttemptLoop(AttemptStep(st, answer, retries, delay), answer, retries, delay)

\* _parse_feed_page(feed_url): [data, attempts, waits]
ParseFeedPage(answer, retries, delay) ==
  AttemptLoop([attempt |-> 0, attempts |-> 0, waits |-> <<>>,
               returned |-> FALSE, data |-> NoPage],
              answer, retries, delay)

\* _check_for_next_page(feed_data, base_url): return False
CheckForNextPage(page_data) == FALSE

\* the page st.page is fetched: lines 72-98
FetchFeedPage(st, r) ==
  LET fetched == [st EXCEPT !.pagelog = Append(@, [page |-> st.page,
                                                    attempts |-> r.attempts,
                                                    waits |-> r.waits,
                                                    parsed |-> r.data.parsed])]
      kept == IF st.page = 1
              THEN [fetched EXCEPT !.has_metadata = TRUE, !.link = r.data.link]
              ELSE fetched
  IN IF ~r.data.parsed THEN [fetched EXCEPT !.left = TRUE]
     ELSE IF r.data.entries = <<>> THEN [kept EXCEPT !.left = TRUE]
     ELSE IF ~CheckForNextPage(r.data)
     THEN [kept EXCEPT !.all_entries = @ \o r.data.entries, !.left = TRUE]
     ELSE [kept EXCEPT !.all_entries = @ \o r.data.entries, !.page = @ + 1]

\* one turn of while page <= max_pages: lines 43-99
FeedPageStep(st, server, retries, delay) ==
  IF st.page > 1 /\ ~ServerPage(server, st.page).probe
  THEN [st EXCEPT !.probed = Append(@, st.page), !.left = TRUE]
  ELSE FetchFeedPage(IF st.page > 1
                     THEN [st EXCEPT !.probed = Append(@, st.page)] ELSE st,
                     ParseFeedPage(ServerPage(server, st.page).answer,
                                   retries, delay))

RECURSIVE FeedPageLoop(_, _, _, _, _)
\* while page <= max_pages
FeedPageLoop(st, server, max_pages, retries, delay) ==
  IF st.left \/ st.page > max_pages THEN st
  ELSE FeedPageLoop(FeedPageStep(st, server, retries, delay),
                    server, max_pages, retries, delay)

\* parse_feed(feed_url, max_pages): [feed, probed, pagelog]
ParseFeed(server, max_pages, retries, delay) ==
  LET st == FeedPageLoop([page |-> 1, all_entries |-> <<>>,
                          has_metadata |-> FALSE, link |-> "",
                          probed |-> <<>>, pagelog |-> <<>>, left |-> FALSE],
                         server, max_pages, retries, delay)
  IN [feed |-> IF st.has_metadata THEN Feed(st.link, st.all_entries) ELSE NoFeed,
      probed |-> st.probed, pagelog |-> st.pagelog]

\* parse_feed(feed_url) called on a FeedParser whose retries and delay are
\* those of the configuration
ParseFeedCall(server, retries, delay) ==
  \E f \in {ParseFeed(server, MAX_FEED_PAGES, retries, delay)} :
    /\ call' = [op |-> "parse_feed", server |-> server, retries |-> retries,
                delay |-> delay, feed |-> f.feed, probed |-> f.probed,
                pagelog |-> f.pagelog, exc |-> None]
    /\ now' = now + 1
    /\ prev' = call
    /\ UNCHANGED <<blogs, posts, agent_browser_path, visited_urls, threads>>

----
(* The crawler and the RSS path on their own: one call per behaviour *)

\* the URL of the entry of page p of a feed
FeedPageUrls == <<"u1", "u2", "u3", "u4">>

\* how one feedparser.parse of page p can end: it raises, finds no
\* entry, finds one that _parse_entry drops, or finds one entry
Answers(p) ==
  {[raises |-> TRUE, raw |-> 0, entries |-> <<>>],
   [raises |-> FALSE, raw |-> 0, entries |-> <<>>],
   [raises |-> FALSE, raw |-> 1, entries |-> <<>>],
   [raises |-> FALSE, raw |-> 1, entries |-> <<Candidate(FeedPageUrls[p], "a")>>]}

\* the first page answers each attempt in any way
FirstPages ==
  {[probe |-> TRUE, answer |-> answer] :
     answer \in [1..REQUEST_RETRIES -> Answers(1)]}

\* a later page answers every attempt the same way
LaterPages(p) ==
  {[probe |-> probe, answer |-> [a \in 1..REQUEST_RETRIES |-> o]] :
     probe \in BOOLEAN, o \in Answers(p)}

RECURSIVE ServersFrom(_, _)
\* the servers that extend `server` up to MaxFeedPages pages
ServersFrom(server, p) ==
  IF p > MaxFeedPages THEN {server}
  ELSE UNION {ServersFrom(Append(server, page), p + 1) : page \in LaterPages(p)}

FeedServers == UNION {ServersFrom(<<first>>, 2) : first \in FirstPages}

\* a site of the blog URL and its /page/2/ and /page/3/
ProbePages ==
  {NotFound} \cup {Page("ok", c, c) : c \in SeqUpTo(ProbeCands, MaxPage)}

ProbeSiteNets ==
  {[detect |-> None, discover |-> None, feed |-> NoFeed,
    site |-> [pages |-> pages, href_links |-> <<>>, class_links |-> <<>>],
    tool |-> Tool(<<>>)] :
     pages \in [1..MAX_PAGES_TO_CHECK -> ProbePages]}

\* the tool's commands end in every way, one step at a time
ToolRuns ==
  {[Tool(items) EXCEPT !.open = o, !.open_main = om] :
     o \in Outcomes, om \in Outcomes, items \in SeqUpTo(ToolItems, 1)}
  \cup {[Tool(<<>>) EXCEPT !.eval = e, !.out = Output(k, items)] :
     e \in Outcomes, k \in OutputKinds, items \in SeqUpTo(ToolItems, MaxPage)}
  \cup {[Tool(<<Candidate("u1", "a")>>) EXCEPT
           !.scroll = s, !.eval_more = em, !.out_more = Output(k, items)] :
     s \in Outcomes, em \in Outcomes, k \in OutputKinds,
     items \in SeqUpTo(ToolItems, 1)}

BrowserNets ==
  {[detect |-> None, discover |-> None, feed |-> NoFeed,
    site |-> OnePageSite(<<Candidate("u2", "a")>>), tool |-> tool] :
     tool \in ToolRuns}

\* a feed, and the posts the page or the rendered page shows
MergeNets ==
  {[detect |-> None, discover |-> f, feed |-> Feed(link, entries),
    site |-> OnePageSite(shown), tool |-> Tool(shown)] :
     f \in {None, "blog/feed"}, link \in {"", "substack"},
     entries \in SeqUpTo(Cands, MaxFeed), shown \in SeqUpTo(Cands, MaxPage)}

QuickCheckStep ==
  /\ call = NoCall
  /\ \E blog_url \in BlogUrls, k \in 0..MaxKnown :
       \E net \in ProbeSiteNets \cup ToolNets \cup BrowserNets :
         QuickCrawlCheckCall(blog_url, k, net)

BrowserStep ==
  /\ call = NoCall
  /\ \E blog_url \in BlogUrls, max_posts \in 0..MaxPage :
       \E net \in BrowserNets : CrawlSubstackCall(blog_url, max_posts, net)

RssStep ==
  /\ call = NoCall
  /\ \E url \in BlogUrls \cup FeedUrls :
       \E net \in MergeNets : CollectViaRssCall(url, net)

FeedStep ==
  /\ call = NoCall
  /\ \E server \in FeedServers, retries \in 0..REQUEST_RETRIES,
        delay \in 1..MaxDelay :
       ParseFeedCall(server, retries, delay)

ComponentNext == QuickCheckStep \/ BrowserStep \/ RssStep \/ FeedStep

ComponentSpec == Init /\ [][ComponentNext]_vars

----
(* The generic crawl of a site whose root page has archive links: one call  *)
(* of crawl_blog or _find_archive_pages per behaviour                       *)

\* a page that only an archive link leads to
ARCHIVE_PAGE == LAST_PAGE + 1

\* the anchors of the root page whose href holds "archive" or "page": none,
\* one, anchors that repeat the blog URL and /page/2/, an anchor without
\* href and a repeated one, more anchors than are looked at
HrefLinks ==
  {<<>>, <<ARCHIVE_PAGE>>, <<ROOT, 2, ARCHIVE_PAGE>>,
   <<NoHref, ARCHIVE_PAGE, ARCHIVE_PAGE, 12>>, <<11, 12, 13, 14, 15, 16>>}

\* the anchors whose class holds "archive" or "pagination"
ClassLinks == {<<>>, <<ARCHIVE_PAGE>>, <<17, 18, 19, 20, 21, 22>>}

\* the blog URL answers 404, an error, or a page of at most one post
RootPages ==
  {NotFound, Page("500", <<>>, <<>>)}
    \cup {Page("ok", c, c) : c \in SeqUpTo(ProbeCands, 1)}

\* what the archive page shows: posts the other pages show under
\* another title, and a post of its own
ArchivePages ==
  {Page("ok", c, c) :
     c \in {<<>>, <<Candidate("u1", "b")>>,
            <<Candidate("u2", "b"), Candidate("u3", "a")>>}}

ArchiveSiteNets ==
  {[detect |-> None, discover |-> None, feed |-> NoFeed,
    site |-> [pages |-> (ROOT :> root @@ 2 :> second @@ ARCHIVE_PAGE :> archive),
              href_links |-> href, class_links |-> class],
    tool |-> Tool(<<>>)] :
     root \in RootPages, second \in ProbePages, archive \in ArchivePages,
     href \in HrefLinks, class \in ClassLinks}

CrawlCallStep ==
  /\ call = NoCall
  /\ \E blog_url \in BlogUrls, max_posts \in 0..MaxPage :
       \E net \in ArchiveSiteNets : CrawlBlogCall(blog_url, max_posts, net)

ArchiveStep ==
  /\ call = NoCall
  /\ \E net \in ArchiveSiteNets : FindArchivePagesCall("blog", net)

CrawlNext == CrawlCallStep \/ ArchiveStep

CrawlSpec == Init /\ [][CrawlNext]_vars

----
(* The crawler object step by step.  crawl_blog, quick_crawl_check and      *)
(* update_blog are run one page request at a time on the one BlogCrawler    *)
(* of the collector; threads[t] is the frame of call t: its arguments, the  *)
(* list it walks (todo), its place in the code (pc) and its locals (st:     *)
(* what is left of the list, posts, the pages requested so far, and whether *)
(* quick_crawl_check returned from inside its loop).  visited_urls is the   *)
(* field of the crawler, shared by all calls.                               *)

\* self.visited_urls.clear() that leaves the set as it is
Kept(visited) == visited

\* self.visited_urls.clear(), lines 402 and 444
Cleared(visited) == {}

Frame(op, blog_url, blog_id, max_posts, rss_post_count, site, urls) ==
  [op |-> op, url |-> blog_url, blog_id |-> blog_id, max_posts |-> max_posts,
   rss_post_count |-> rss_post_count, site |-> site, todo |-> urls,
   pc |-> "crawl",
   st |-> [urls |-> urls, posts |-> <<>>, fetched |-> <<>>, returned |-> FALSE],
   existing |-> {}, ret |-> 0]

\* the generic path is taken: line 441 (and 388) is false
GenericPath(blog_url) == ~(IsSubstack(blog_url) /\ agent_browser_path # None)

Begin(frame) ==
  /\ Len(threads) < MaxThreads
  /\ threads' = Append(threads, frame)
  /\ visited_urls' = Cleared(visited_urls)
  /\ now' = now + 1
  /\ UNCHANGED <<blogs, posts, agent_browser_path, call, prev>>

\* crawl_blog(blog_url, max_posts), lines 444-463
StartCrawl(blog_url, max_posts, net) ==
  /\ GenericPath(blog_url)
  /\ Begin(Frame("crawl_blog", blog_url, 0, max_posts, 0, net.site,
                 <<ROOT>> \o FindArchivePages(net.site) \o PageUrls(2, LAST_PAGE)))

\* quick_crawl_check(blog_url, rss_post_count), lines 401-413
StartQuickCheck(blog_url, rss_post_count, net) ==
  /\ GenericPath(blog_url)
  /\ Begin(Frame("quick_crawl_check", blog_url, 0, 0, rss_post_count, net.site,
                 <<ROOT>> \o PageUrls(2, MAX_PAGES_TO_CHECK)))

\* update_blog(blog_id) of a blog that is collected by the crawler, up to
\* the loop of crawl_blog
StartUpdate(blog_id, net) ==
  /\ GetBlog(blogs, blog_id) # 0
  /\ ~(blogs[blog_id].collection_method = "rss" /\ blogs[blog_id].feed_url # None)
  /\ GenericPath(blogs[blog_id].url)
  /\ Begin(Frame("update", blogs[blog_id].url, blog_id, 0, 0, net.site,
                 <<ROOT>> \o FindArchivePages(net.site) \o PageUrls(2, LAST_PAGE)))

\* the loop of the call goes on: lines 465-467, or 415 and 422-424
Continues(th) ==
  /\ th.st.urls # <<>>
  /\ IF th.op = "quick_crawl_check" THEN ~th.st.returned
     ELSE ~(th.max_posts > 0 /\ Len(th.st.posts) >= th.max_posts)

\* one turn of the loop of call t: _extract_posts_from_page on the shared
\* set, then the posts of the page are absorbed
PageStep(t) ==
  LET th == threads[t]
      shared == [urls |-> th.st.urls, posts |-> th.st.posts,
                 visited |-> visited_urls, fetched |-> th.st.fetched]
  IN /\ th.pc = "crawl"
     /\ Continues(th)
     /\ \E x \in {IF th.op = "quick_crawl_check"
                   THEN QuickStep(shared, th.site, IsSubstack(th.url),
                                  th.rss_post_count)
                   ELSE [returned |-> FALSE]
                          @@ CrawlStep(shared, th.site, IsSubstack(th.url),
                                       th.max_posts)} :
          /\ visited_urls' = x.visited
          /\ threads' = [threads EXCEPT ![t].st =
                           [urls |-> x.urls, posts |-> x.posts,
                            fetched |-> x.fetched, returned |-> x.returned]]
     /\ UNCHANGED <<blogs, posts, now, agent_browser_path, call, prev>>

\* the loop is left: crawl_blog and quick_crawl_check return, update_blog
\* goes on with the list of crawl_blog
EndCrawl(t) ==
  /\ threads[t].pc = "crawl"
  /\ ~Continues(threads[t])
  /\ threads' = [threads EXCEPT
                   ![t].pc = IF threads[t].op = "update" THEN "read" ELSE "done",
                   ![t].ret = IF threads[t].op = "update" THEN 0
                              ELSE Len(threads[t].st.posts)]
  /\ UNCHANGED <<blogs, posts, now, agent_browser_path, call, prev, visited_urls>>

\* lines 139-140 of update_blog
ReadExisting(t) ==
  /\ threads[t].pc = "read"
  /\ threads' = [threads EXCEPT
                   ![t].pc = "add",
                   ![t].existing = Urls(GetPostsByBlog(posts, threads[t].blog_id))]
  /\ UNCHANGED <<blogs, posts, now, agent_browser_path, call, prev, visited_urls>>

\* lines 142-183 of update_blog
AddNewPosts(t) ==
  /\ threads[t].pc = "add"
  /\ \E added \in {AddPosts(posts, threads[t].blog_id, threads[t].st.posts,
                             threads[t].existing)} :
       /\ posts' = added.rows
       /\ threads' = [threads EXCEPT ![t].pc = "done",
                                     ![t].ret = added.added_count]
  /\ blogs' = UpdateBlogCollectionTime(blogs, threads[t].blog_id, now)
  /\ UNCHANGED <<now, agent_browser_path, call, prev, visited_urls>>

\* no call is under way
Idle == \A t \in 1..Len(threads) : threads[t].pc = "done"

\* sites whose root page may link to the blog URL, to /page/2/ and to an
\* archive page
StepSiteNets ==
  {[detect |-> None, discover |-> None, feed |-> NoFeed,
    site |-> [pages |-> (ROOT :> Page("ok", root, root) @@ 2 :> second
                           @@ ARCHIVE_PAGE :> Page("ok", <<>>, <<>>)),
              href_links |-> href, class_links |-> <<>>],
    tool |-> Tool(<<>>)] :
     root \in {<<Candidate("u1", "a")>>,
               <<Candidate("u1", "a"), Candidate("u2", "a")>>},
     second \in {NotFound, Page("ok", <<Candidate("u3", "a")>>,
                                <<Candidate("u3", "a")>>)},
     href \in {<<>>, <<ROOT, 2, ARCHIVE_PAGE>>}}

(* Calls made one after the other *)

SerialCrawl ==
  /\ Idle
  /\ \E max_posts \in 0..1 : \E net \in StepSiteNets :
       StartCrawl("blog", max_posts, net)

SerialQuickCheck ==
  /\ Idle
  /\ \E rss_post_count \in 0..1 : \E net \in StepSiteNets :
       StartQuickCheck("blog", rss_post_count, net)

Pages == \E t \in 1..Len(threads) : PageStep(t)

Ends == \E t \in 1..Len(threads) : EndCrawl(t)

SerialNext == SerialCrawl \/ SerialQuickCheck \/ Pages \/ Ends

SerialSpec == Init /\ [][SerialNext]_vars

(* The web application: the blog is registered, then requests to          *)
(* /api/blog/<id>/add run update_blog on the one collector, each in its    *)
(* own thread of the server                                                *)

\* the site when the blog is registered: one post, no further page
RegisterNets ==
  {net \in StepSiteNets :
     /\ Len(net.site.pages[ROOT].containers) = 1
     /\ net.site.pages[2] = NotFound
     /\ net.site.href_links = <<>>}

\* the site when the requests are made: a second post has appeared
RequestNets ==
  {net \in StepSiteNets :
     /\ Len(net.site.pages[ROOT].containers) = 2
     /\ net.site.href_links = <<>>}

Register ==
  /\ blogs = <<>> /\ threads = <<>>
  /\ \E net \in RegisterNets : CollectBlog("blog", "crawler", net)

\* the requests are made at the same time: the site shows them the same
ApiAddBlog ==
  \E blog_id \in 1..Len(blogs) : \E net \in RequestNets :
    /\ \A t \in 1..Len(threads) : threads[t].site = net.site
    /\ StartUpdate(blog_id, net)

Reads == \E t \in 1..Len(threads) : ReadExisting(t)

Adds == \E t \in 1..Len(threads) : AddNewPosts(t)

WebNext == Register \/ ApiAddBlog \/ Pages \/ Ends \/ Reads \/ Adds

WebSpec == Init /\ [][WebNext]_vars

----
(* Ingestion of posts that have content: collect_blog and update_blog on a  *)
(* blog whose feed has one entry                                            *)

\* numbers of words a text has, around the thresholds of the reading time
WordCounts == {0, 1, 150, 199, 200, 400}

\* a text without tags: n tokens (only white space when n = 0)
Plain(n) == [kind |-> "text", html |-> FALSE, tokens |-> n, clean |-> n]

\* a text with tags: t tokens are tags, n tokens are left by clean_html
Html(n, t) == [kind |-> "text", html |-> TRUE, tokens |-> n + t, clean |-> n]

Contents ==
  {NoContent, EmptyString} \cup {Plain(n) : n \in WordCounts}
    \cup {Html(n, t) : n \in WordCounts, t \in 1..MaxTags}

\* _parse_entry: an entry with its content
Entry(url, title, content) == [url |-> url, title |-> title, content |-> content]

ContentNets ==
  {[detect |-> "blog/feed", discover |-> "blog/feed",
    feed |-> Feed("blog", <<Entry(u, "a", content)>>),
    site |-> EmptySite, tool |-> Tool(<<>>)] :
     u \in PostUrls, content \in Contents}

\* the feed's entry has neither link nor links: _parse_entry gives it the
\* url ""
LinklessNets ==
  {[detect |-> "blog/feed", discover |-> "blog/feed",
    feed |-> Feed("blog", <<Entry("", "a", NoContent)>>),
    site |-> EmptySite, tool |-> Tool(<<>>)]}

IngestCollect ==
  /\ now < MaxCalls
  /\ \E net \in ContentNets \cup LinklessNets : CollectBlog("blog", "rss", net)

IngestUpdate ==
  /\ now < MaxCalls
  /\ \E blog_id \in 1..Len(blogs) :
       \E net \in ContentNets \cup LinklessNets : UpdateBlog(blog_id, net)

IngestNext == IngestCollect \/ IngestUpdate

IngestSpec == Init /\ [][IngestNext]_vars

----
(* Properties *)

\* the fields of a Blog row that identify the record
BlogKey(b) ==
  [url |-> b.url, feed_url |-> b.feed_url,
   collection_method |-> b.collection_method]

BlogKeys(blog_rows) == {BlogKey(blog_rows[i]) : i \in 1..Len(blog_rows)}

UrlSeq(s) == [i \in 1..Len(s) |-> s[i].url]

\* C1: when collect_blog is called twice in succession with the same blog
\* URL and method and the sources return the same candidate list, the second
\* call leaves the same Blog records (no second Blog row; only
\* last_collected_at is refreshed) and the same set of Post URLs, and it
\* creates no Post row.
C1_CollectTwiceAddsNothing ==
  [][(/\ call.op = "collect" /\ call'.op = "collect"
      /\ call'.url = call.url /\ call'.method = call.method
      /\ call'.cands = call.cands /\ call'.exc = call.exc)
     => /\ Len(blogs') = Len(blogs)
        /\ BlogKeys(blogs') = BlogKeys(blogs)
        /\ Len(posts') = Len(posts)
        /\ Urls(posts') = Urls(posts)]_vars

\* C1 witness: a collect that stored a blog with two posts has been repeated
\* with the same candidates and returned the same blog id
C1_Witness ==
  /\ prev.op = "collect" /\ call.op = "collect"
  /\ prev.url = call.url /\ prev.method = call.method
  /\ prev.cands = call.cands /\ Len(call.cands) = 2
  /\ prev.ret # 0 /\ call.ret = prev.ret
  /\ Len(blogs) = 1 /\ Len(posts) = 2

\* C2: update_blog hands to add_post exactly the candidates whose URL is not
\* a URL of the posts stored for that blog: every row of that blog is left
\* as it was, every row created or changed carries such a candidate, every
\* such candidate that add_post accepts is stored; and with u1 stored and a
\* fetch of u1 then u2 the call returns 1.
C2_UpdateOnlyNew ==
  [][(call'.op = "update" /\ call'.exc = None)
     => LET id == call'.blog_id
            E == {posts[i].url : i \in {j \in 1..Len(posts) : posts[j].blog_id = id}}
            fresh == {c \in Range(call'.cands) : c.url \notin E}
        IN /\ Len(posts') >= Len(posts)
           /\ \A i \in 1..Len(posts) :
                posts[i].blog_id = id => posts'[i] = posts[i]
           /\ \A i \in 1..Len(posts') :
                (i > Len(posts) \/ posts'[i] # posts[i])
                  => \E c \in fresh : /\ c.url = posts'[i].url
                                      /\ c.title = posts'[i].title
           /\ \A c \in fresh : c.title # None => c.url \in Urls(posts')
           /\ (/\ E = {"u1"}
               /\ UrlSeq(call'.cands) = <<"u1", "u2">>
               /\ call'.cands[2].title # None)
              => call'.ret = 1]_vars

\* C2 witness: an update of a blog that had the one post u1 fetched u1 with
\* another title and u2; it returned 1 and the u1 row kept its title
C2_Witness ==
  /\ call.op = "update" /\ call.exc = None
  /\ call.existing = {"u1"}
  /\ UrlSeq(call.cands) = <<"u1", "u2">>
  /\ call.ret = 1
  /\ posts[1].url = "u1" /\ posts[1].title # call.cands[1].title
  /\ Len(posts) = 2

\* C3: for a non-empty list of feed entries F and a crawler result C, the
\* list _collect_via_rss returns is F, unmodified and in place, followed by
\* posts of C whose URL is no URL of F, one for each such URL.
C3_MergeCorrect ==
  (call.op = "_collect_via_rss" /\ call.exc = None /\ call.entries # <<>>)
  => LET F == call.entries
         C == call.crawled
         R == call.posts
         added == (Len(F) + 1)..Len(R)
     IN /\ Len(R) >= Len(F)
        /\ SubSeq(R, 1, Len(F)) = F
        /\ \A i \in added : R[i] \in Range(C) /\ R[i].url \notin Urls(F)
        /\ \A i, j \in added : R[i].url = R[j].url => i = j
        /\ {R[i].url : i \in added} = Urls(C) \ Urls(F)

\* C3 witness: the crawler returned a post with the URL of a feed entry but
\* another title, and a post the feed does not have; the feed entry stayed
\* and the new post follows it
C3_Witness ==
  /\ call.op = "_collect_via_rss" /\ call.exc = None
  /\ Len(call.entries) = 1 /\ Len(call.crawled) = 2
  /\ call.crawled[1].url = call.entries[1].url
  /\ call.crawled[1].title # call.entries[1].title
  /\ call.crawled[2].url # call.entries[1].url
  /\ call.posts = <<call.entries[1], call.crawled[2]>>

\* C4: whenever collect_blog tries the RSS path and ends with no candidate,
\* it has run a pure crawl of the blog URL before returning None (for an
\* explicit rss and for auto resolved to rss).
C4_CrawlFallback ==
  (/\ call.op = "collect" /\ call.exc = None
   /\ "discover" \in Range(call.log)
   /\ call.cands = <<>>)
  => "crawl" \in Range(call.log)

\* C5: collect_blog with method auto and no feed found by the detection runs
\* the crawler path; and a collect_blog whose final candidate list is empty
\* returns None and leaves the blogs and the posts as they were.
C5_AutoFallsBackAndEmptyIsNone ==
  [][call'.op = "collect"
     => /\ (call'.method = "auto" /\ call'.detect = None)
             => "crawl" \in Range(call'.log)
        /\ (call'.exc = None /\ call'.cands = <<>>)
             => /\ call'.ret = 0
                /\ blogs' = blogs
                /\ posts' = posts]_vars

\* C5 witness: with a blog already stored, an auto collect found no feed,
\* crawled, obtained nothing and returned None
C5_Witness ==
  /\ call.op = "collect" /\ call.method = "auto" /\ call.detect = None
  /\ call.log = <<"detect", "crawl">>
  /\ call.cands = <<>> /\ call.exc = None /\ call.ret = 0
  /\ Len(blogs) = 1 /\ Len(posts) > 0

\* C6: update_blog returns the number of Post rows that exist after the call
\* and did not exist before it.
C6_UpdateReturnsNewRows ==
  [][(call'.op = "update" /\ call'.exc = None)
     => call'.ret = Len(posts') - Len(posts)]_vars

\* C7: an update_blog that obtains no candidate returns 0 and changes no
\* stored record; the blog keeps its last_collected_at.
C7_EmptyUpdateChangesNothing ==
  [][(call'.op = "update" /\ call'.exc = None /\ call'.cands = <<>>)
     => /\ call'.ret = 0
        /\ posts' = posts
        /\ blogs' = blogs]_vars

\* C8 as stated: on every path quick_crawl_check returns has_more exactly
\* when the number of distinct post URLs it accumulated exceeds
\* rss_post_count, and that number as the count.
C8_HasMoreIffAboveKnown ==
  call.op = "quick_crawl_check"
  => /\ call.count = Cardinality(Urls(call.posts))
     /\ call.has_more <=> (call.count > call.rss_post_count)

\* C8 amended: the count is the number of distinct post URLs accumulated;
\* on the regular path has_more holds exactly when the count exceeds
\* rss_post_count; on the browser path (a Substack URL, the tool present,
\* the browser crawl not raising) has_more holds exactly when the count is
\* positive, whatever rss_post_count is; with rss_post_count = 0 and a post
\* found has_more holds on both.
C8_HasMoreByPath ==
  call.op = "quick_crawl_check"
  => /\ call.count = Cardinality(Urls(call.posts))
     /\ call.path = "regular"
          => (call.has_more <=> (call.count > call.rss_post_count))
     /\ call.path = "browser"
          => /\ call.has_more <=> (call.count > 0)
             /\ IsSubstack(call.url) /\ agent_browser_path # None
     /\ (call.rss_post_count = 0 /\ call.count > 0) => call.has_more

\* C8 witness: the browser check of a Substack blog found fewer posts than
\* rss_post_count and answered has_more
C8_Witness ==
  /\ call.op = "quick_crawl_check" /\ call.path = "browser"
  /\ call.count > 0 /\ call.count < call.rss_post_count
  /\ call.has_more

\* C9: no exception reaches the caller of collect_blog or update_blog.
C9_NoExceptionReachesCaller ==
  call.op \in {"collect", "update"} => call.exc = None

\* C10: a crawl_substack_with_browser that issued an open command issued a
\* close command before it returned.
C10_OpenedSessionIsClosed ==
  (call.op = "crawl_substack_with_browser" /\ "open" \in Range(call.cmds))
  => "close" \in Range(call.cmds)

\* the tool fails while the browser crawl runs: a command is not found or
\* times out, or what the first eval printed cannot be parsed
ToolFails(tool) ==
  \/ tool.open \in {"notfound", "timeout"}
  \/ /\ tool.open = "ok"
     /\ \/ tool.eval \in {"notfound", "timeout"}
        \/ tool.eval = "ok" /\ tool.out.kind = "badjson"

\* C11: when the rendering tool fails during a browser crawl (executable not
\* found at run time, a command times out, or its output cannot be parsed),
\* crawl_substack_with_browser does not fail and returns the posts of a crawl
\* of the blog by the generic HTTP path.
C11_ToolFailureFallsBack ==
  (/\ call.op = "crawl_substack_with_browser"
   /\ agent_browser_path # None
   /\ ToolFails(call.tool))
  => /\ call.exc = None
     /\ call.fetched # <<>>
     /\ call.posts = CrawlGeneric(call.url, call.max_posts, call.site).posts

\* the call ended in a crawl alone: its candidates are the crawler's list
PureCrawl(c) ==
  /\ c.op \in {"collect", "update"}
  /\ c.exc = None
  /\ c.log # <<>>
  /\ c.log[Len(c.log)] = "crawl"
  /\ "quick_check" \notin Range(c.log)

\* C12: when _find_agent_browser found no executable, no call spawns a tool
\* command (open, find, eval, scroll, close), no call ends in an error of the
\* crawl (update_blog of an unknown id still raises its ValueError), and
\* every crawl, that of a Substack URL included, returns the posts of the
\* generic HTTP path.
C12_NoToolNoSubprocess ==
  (agent_browser_path = None /\ call.op # "none")
  => /\ call.cmds = <<>>
     /\ call.op # "quick_crawl_check"
          => /\ call.exc \in {None, "ValueError"}
             /\ call.exc = "ValueError"
                  => (call.op = "update" /\ call.blog_id > Len(blogs))
     /\ PureCrawl(call)
          => call.cands = CrawlGeneric(call.url, 0, call.site).posts
     /\ call.op = "crawl_substack_with_browser"
          => call.posts = CrawlGeneric(call.url, call.max_posts, call.site).posts

\* C12 witness: without the tool, a collect of the Substack blog by the
\* crawler stored the posts of its page and spawned no command
C12_Witness ==
  /\ agent_browser_path = None
  /\ call.op = "collect" /\ call.method = "crawler"
  /\ IsSubstack(call.url)
  /\ PureCrawl(call)
  /\ Len(call.cands) = 2 /\ call.ret # 0
  /\ call.cmds = <<>>

\* the last n elements of a log
LogEnd(log, n) == SubSeq(log, IF Len(log) > n THEN Len(log) - n + 1 ELSE 1, Len(log))

\* the blog URL _collect_via_rss crawls for the call c (lines 205-231)
BlogUrlOfCall(c) ==
  IF c.url \notin FeedSuffixUrls THEN c.url
  ELSE BlogUrlOfFeed(c.net.feed, c.feed_url)

UniqueUrls(rows) ==
  \A i, j \in 1..Len(rows) : rows[i].url = rows[j].url => i = j

\* the title add_post leaves for the URL u after the candidates cands: that
\* of the last candidate with this URL that it accepts, or None
LastTitle(cands, u) ==
  LET J == {j \in 1..Len(cands) : cands[j].url = u /\ cands[j].title # None}
  IN IF J = {} THEN None
     ELSE cands[CHOOSE j \in J : \A k \in J : k <= j].title

\* C14: after every collect_blog and update_blog the store holds at most one
\* Blog row per blog URL and at most one Post row per post URL; no Blog row
\* is deleted or given another URL; and a collect_blog that sees the URL of a
\* stored Post overwrites that row in place instead of adding a second one.
C14_StoreUnique ==
  [][/\ UniqueUrls(blogs') /\ UniqueUrls(posts')
     /\ Len(blogs') >= Len(blogs)
     /\ \A i \in 1..Len(blogs) : blogs'[i].url = blogs[i].url
     /\ Len(posts') >= Len(posts)
     /\ (call'.op = "collect" /\ call'.exc = None)
          => \A i \in 1..Len(posts) :
               /\ posts'[i].url = posts[i].url
               /\ posts'[i].blog_id = posts[i].blog_id
               /\ posts'[i].title =
                    IF LastTitle(call'.cands, posts[i].url) # None
                    THEN LastTitle(call'.cands, posts[i].url)
                    ELSE posts[i].title]_vars

\* C14 witness: a collect stored the post u1 with title a; a later collect
\* saw u1 with title b: there is still one blog and one post, now titled b
C14_Witness ==
  /\ prev.op = "collect" /\ prev.ret # 0
  /\ prev.cands = <<[url |-> "u1", title |-> "a"]>>
  /\ call.op = "collect" /\ call.url = prev.url /\ call.ret = prev.ret
  /\ call.cands = <<[url |-> "u1", title |-> "b"]>>
  /\ Len(blogs) = 1
  /\ Len(posts) = 1
  /\ posts[1].blog_id = 1 /\ posts[1].url = "u1" /\ posts[1].title = "b"

\* C15: in collect_blog and in update_blog a candidate whose ingestion fails
\* (add_post raises) is skipped and not counted: its URL gets no row from
\* it; every other candidate of the batch, those after it included, is
\* ingested; update_blog returns the number of candidates ingested; the
\* blog's last_collected_at is set to the time of the call; and the call
\* returns normally.
C15_FailingPostIsSkipped ==
  [][(/\ call'.op \in {"collect", "update"}
      /\ call'.exc = None
      /\ call'.op = "collect" => call'.cands # <<>>)
     => LET cands == call'.cands
            id == IF call'.op = "collect" THEN call'.ret ELSE call'.blog_id
            todo == {j \in 1..Len(cands) : cands[j].url \notin call'.existing}
            ok == {j \in todo : cands[j].title # None}
        IN /\ id \in 1..Len(blogs')
           /\ \A j \in ok :
                \E i \in 1..Len(posts') :
                  /\ posts'[i].url = cands[j].url
                  /\ posts'[i].title = LastTitle(cands, cands[j].url)
           /\ \A j \in todo \ ok :
                (/\ cands[j].url \notin Urls(posts)
                 /\ \A k \in ok : cands[k].url # cands[j].url)
                => cands[j].url \notin Urls(posts')
           /\ Len(posts') <= Len(posts) + Cardinality(ok)
           /\ call'.op = "update" => call'.ret = Cardinality(ok)
           /\ blogs'[id].last_collected_at = now']_vars

\* C15 witness: the first candidate of a collect had no title and was
\* refused by add_post, the second was stored, and the blog has the time of
\* the call
C15_Witness ==
  /\ call.op = "collect" /\ call.exc = None /\ call.ret = 1
  /\ Len(call.cands) = 2
  /\ call.cands[1].title = None /\ call.cands[1].url = "u1"
  /\ call.cands[2].title # None /\ call.cands[2].url = "u2"
  /\ Urls(posts) = {"u2"}
  /\ blogs[1].last_collected_at = now

\* the text of the candidate c that is counted: what clean_html leaves of a
\* text with tags, the text itself otherwise
CountedTokens(c) ==
  IF IsHtml(ContentOf(c)) THEN ContentOf(c).clean ELSE ContentOf(c).tokens

\* the candidate c has no text once it is cleaned
NoText(c) ==
  \/ Falsy(ContentOf(c))
  \/ IsHtml(ContentOf(c)) /\ ContentOf(c).clean = 0

\* C16: a post ingested by collect_blog or update_blog whose cleaned content
\* is non-empty with n whitespace-delimited tokens is stored with
\* word_count = n and reading_time = max(1, n div 200) (400 tokens give 2,
\* 150 give 1); n is counted on the cleaned text when the content has tags;
\* no stored reading_time is below 1.
C16_WordCountAndReadingTime ==
  /\ \A i \in 1..Len(posts) :
       posts[i].reading_time # NullInt => posts[i].reading_time >= 1
  /\ (call.op \in {"collect", "update"} /\ call.exc = None)
     => \A j \in 1..Len(call.cands) :
          (/\ call.cands[j].url \notin call.existing
           /\ call.cands[j].title # None
           /\ \A k \in (j + 1)..Len(call.cands) :
                call.cands[k].url # call.cands[j].url)
          => \E i \in 1..Len(posts) :
               /\ posts[i].url = call.cands[j].url
               /\ IF NoText(call.cands[j])
                  THEN /\ posts[i].word_count = NullInt
                       /\ posts[i].reading_time = NullInt
                  ELSE LET n == CountedTokens(call.cands[j])
                       IN /\ posts[i].content.tokens = n
                          /\ posts[i].word_count = n
                          /\ posts[i].reading_time >= 1
                          /\ posts[i].reading_time >= n \div 200
                          /\ posts[i].reading_time \in {1, n \div 200}
                          /\ n = 400 => posts[i].reading_time = 2
                          /\ n = 150 => posts[i].reading_time = 1

\* C16 witness: an update ingested an entry whose content has tags and 400
\* words: it is stored with word_count 400 and reading_time 2
C16_Witness ==
  /\ call.op = "update" /\ call.exc = None /\ call.ret = 1
  /\ Len(call.cands) = 1
  /\ call.cands[1].content = Html(400, 1)
  /\ \E i \in 1..Len(posts) :
       /\ posts[i].url = call.cands[1].url
       /\ posts[i].word_count = 400
       /\ posts[i].reading_time = 2

\* the URLs of the posts on the pages of `fetched` that answer 200
UrlsOnPages(site, fetched) ==
  UNION {Urls(ExtractContainers(Fetch(site, fetched[i]).containers)) :
           i \in {j \in 1..Len(fetched) : Fetch(site, fetched[j]).status = "ok"}}

\* C17: _extract_posts_from_page on a page URL that answers 404 returns the
\* empty list, and the loop that called it goes on: in quick_crawl_check
\* the next of the max_pages_to_check page URLs is fetched, in crawl_blog
\* the next page URL is fetched unless max_posts is reached; the posts
\* returned are those of the pages that answered 200.
C17_NotFoundIsEmpty ==
  (/\ call.op \in {"quick_crawl_check", "crawl_substack_with_browser"}
   /\ call.cmds = <<>>)
  => /\ \A i \in 1..Len(call.fetched) :
          Fetch(call.site, call.fetched[i]).status = "404"
          => /\ ExtractPostsFromPage(call.fetched[i], call.site,
                                      IsSubstack(call.url), {}).posts = <<>>
             /\ (call.op = "quick_crawl_check" /\ i < MAX_PAGES_TO_CHECK)
                  => Len(call.fetched) > i
             /\ (/\ call.op = "crawl_substack_with_browser"
                 /\ call.fetched[i] < LAST_PAGE
                 /\ call.max_posts = 0 \/ Len(call.posts) < call.max_posts)
                  => Len(call.fetched) > i
     /\ Urls(call.posts) \subseteq UrlsOnPages(call.site, call.fetched)
     /\ (call.op = "quick_crawl_check" \/ call.max_posts = 0)
          => Urls(call.posts) = UrlsOnPages(call.site, call.fetched)

\* C17 witness: the blog URL answered 404, quick_crawl_check went on to
\* /page/2/ and /page/3/ and found the posts that are there
C17_Witness ==
  /\ call.op = "quick_crawl_check" /\ call.cmds = <<>>
  /\ call.fetched = <<1, 2, 3>>
  /\ Fetch(call.site, 1).status = "404"
  /\ Fetch(call.site, 2).status = "404"
  /\ call.count = 2 /\ call.has_more

\* C18: after the first feed page has been fetched with entries, parse_feed
\* probes the synthetic URLs of page 2; when that probe succeeds the page is
\* fetched and its entries are appended to the result after those of the
\* first page.
C18_FeedPagination ==
  (/\ call.op = "parse_feed"
   /\ call.feed.parsed /\ call.feed.entries # <<>>)
  => /\ call.probed # <<>> /\ call.probed[1] = 2
     /\ LET second == ParseFeedPage(ServerPage(call.server, 2).answer,
                                     call.retries, call.delay).data
        IN (ServerPage(call.server, 2).probe /\ second.entries # <<>>)
           => /\ Len(call.feed.entries) >= 2
              /\ call.feed.entries[2] = second.entries[1]

\* the attempts among the first `retries` that do not raise
Deciding(answer, retries) == {a \in 1..retries : ~answer[a].raises}

\* C19: fetching one feed page makes at most `retries` attempts: the first
\* attempt that does not raise is the last one and decides the result (None
\* when it finds no entry); every attempt that raises and is not the last
\* allowed one is followed by a wait of delay * attemptNumber; when all
\* `retries` attempts raise the result is None; and parse_feed returns None,
\* raising nothing, when the first page gives None.
C19_BoundedRetries ==
  call.op = "parse_feed"
  => /\ call.exc = None
     /\ \A i \in 1..Len(call.pagelog) :
          LET e == call.pagelog[i]
              answer == ServerPage(call.server, e.page).answer
              D == Deciding(answer, call.retries)
              first == CHOOSE a \in D : \A b \in D : a <= b
              raised == IF D # {} THEN first - 1 ELSE call.retries
              waited == IF D # {} THEN raised
                        ELSE IF raised > 0 THEN raised - 1 ELSE 0
          IN /\ e.attempts <= call.retries
             /\ e.attempts = (IF D # {} THEN first ELSE call.retries)
             /\ e.waits = [a \in 1..waited |-> call.delay * a]
             /\ e.parsed <=> (D # {} /\ answer[first].raw > 0)
     /\ (call.pagelog = <<>> \/ ~call.pagelog[1].parsed)
          => call.feed = NoFeed

\* C19 witness: with three retries and a delay of 2 the first two attempts
\* raised, were followed by waits of 2 and 4, and the third gave the feed
C19_Witness ==
  /\ call.op = "parse_feed"
  /\ call.retries = 3 /\ call.delay = 2
  /\ Len(call.pagelog) = 1
  /\ call.pagelog[1].attempts = 3
  /\ call.pagelog[1].waits = <<2, 4>>
  /\ call.feed.parsed /\ Len(call.feed.entries) = 1

\* C20: update_blog takes the RSS path on the stored feed_url when the
\* stored collection_method is rss and the crawler otherwise, and runs
\* neither feed discovery nor the detection of the method, whatever the
\* stored feed URL looks like.
C20_UpdateNeverDiscovers ==
  (call.op = "update" /\ call.exc = None)
  => /\ "discover" \notin Range(call.log)
     /\ "detect" \notin Range(call.log)
     /\ call.method = "rss" => call.log[1] = "parse_feed"
     /\ call.method # "rss" => call.log = <<"crawl">>

\* C21: crawl_blog with max_posts >= 1 returns at most max_posts posts, and
\* every page it fetched was fetched while the pages fetched before it held
\* fewer than max_posts distinct post URLs: once max_posts posts are
\* accumulated no further page is fetched and no further post is absorbed.
C21_MaxPostsBound ==
  (call.op = "crawl_blog" /\ call.max_posts >= 1 /\ call.exc = None)
  => /\ Len(call.posts) <= call.max_posts
     /\ \A i \in 1..Len(call.fetched) :
          Cardinality(UrlsOnPages(call.site, SubSeq(call.fetched, 1, i - 1)))
            < call.max_posts

\* C21 witness: with max_posts = 1 the crawl read the empty root page and
\* /page/2/, which shows two posts, kept the first of them and fetched no
\* further page
C21_Witness ==
  /\ call.op = "crawl_blog" /\ call.max_posts = 1 /\ call.exc = None
  /\ call.fetched = <<ROOT, 2>>
  /\ Cardinality(UrlsOnPages(call.site, <<2>>)) = 2
  /\ call.posts = <<Fetch(call.site, 2).containers[1]>>

\* the place of the first occurrence of x in s
Pos(s, x) == CHOOSE i \in 1..Len(s) : s[i] = x /\ \A j \in 1..(i - 1) : s[j] # x

\* the first page of `fetched` that shows a post with URL u, and the first
\* record with that URL on it
FirstPageWith(site, fetched, u) ==
  fetched[CHOOSE i \in 1..Len(fetched) :
            /\ u \in UrlsOnPages(site, <<fetched[i]>>)
            /\ \A j \in 1..(i - 1) : u \notin UrlsOnPages(site, <<fetched[j]>>)]

FirstRecord(containers, u) ==
  containers[CHOOSE i \in 1..Len(containers) :
               /\ containers[i].url = u
               /\ \A j \in 1..(i - 1) : containers[j].url # u]

\* C22: the generic crawl fetches pages in the order blog URL, discovered
\* archive pages, /page/2/ .. /page/10/ (each page URL at its first place in
\* that list, none left out before the last one fetched); the returned posts
\* have pairwise distinct URLs, and the record kept for a URL is the first
\* one on the first fetched page that shows it.
C22_FirstOccurrenceWins ==
  (call.op = "crawl_blog" /\ call.cmds = <<>> /\ call.exc = None)
  => LET order == <<ROOT>> \o FindArchivePages(call.site) \o PageUrls(2, LAST_PAGE)
         f == call.fetched
     IN /\ Range(f) \subseteq Range(order)
        /\ \A i, j \in 1..Len(f) : i < j => Pos(order, f[i]) < Pos(order, f[j])
        /\ \A i \in 1..Len(f) : \A x \in Range(order) :
             Pos(order, x) < Pos(order, f[i]) => x \in Range(SubSeq(f, 1, i))
        /\ \A i, j \in 1..Len(call.posts) :
             call.posts[i].url = call.posts[j].url => i = j
        /\ \A i \in 1..Len(call.posts) :
             call.posts[i] =
               FirstRecord(Fetch(call.site,
                                 FirstPageWith(call.site, f, call.posts[i].url)).containers,
                           call.posts[i].url)

\* C22 witness: the archive page and /page/2/ show the post u2 under
\* different titles; the crawl read the archive page right after the blog
\* URL and kept its record
C22_Witness ==
  /\ call.op = "crawl_blog" /\ call.cmds = <<>> /\ call.exc = None
  /\ Len(call.fetched) > 2 /\ call.fetched[2] = ARCHIVE_PAGE
  /\ Candidate("u2", "a") \in Range(Fetch(call.site, 2).containers)
  /\ Candidate("u2", "b") \in Range(call.posts)
  /\ Candidate("u2", "a") \notin Range(call.posts)

\* C25: _find_archive_pages returns at most 5 URLs, pairwise distinct, and
\* the empty list, without raising, when the root page cannot be read.
C25_AtMostFiveArchivePages ==
  call.op = "_find_archive_pages"
  => /\ Len(call.archive_urls) <= ARCHIVE_LINKS
     /\ \A i, j \in 1..Len(call.archive_urls) :
          call.archive_urls[i] = call.archive_urls[j] => i = j
     /\ call.exc = None
     /\ Fetch(call.site, ROOT).status # "ok" => call.archive_urls = <<>>

\* C24: quick_crawl_check fetches the blog URL and then /page/2/ up to
\* /page/max_pages_to_check/, in that order and nothing else, and it fetches
\* a page only while the pages before it showed at most rss_post_count
\* distinct post URLs.
C24_QuickCheckBoundedCost ==
  call.op = "quick_crawl_check"
  => /\ Len(call.fetched) <= MAX_PAGES_TO_CHECK
     /\ \A i \in 1..Len(call.fetched) : call.fetched[i] = i
     /\ \A i \in 1..Len(call.fetched) :
          Cardinality(UrlsOnPages(call.site, SubSeq(call.fetched, 1, i - 1)))
            <= call.rss_post_count

\* C24 witness: the feed had one entry, the blog URL shows two posts and
\* /page/2/ exists; the check fetched the blog URL only
C24_Witness ==
  /\ call.op = "quick_crawl_check" /\ call.path = "regular"
  /\ call.rss_post_count = 1 /\ call.count = 2
  /\ call.fetched = <<ROOT>>
  /\ Fetch(call.site, 2).status = "ok"
  /\ Fetch(call.site, 2).containers # <<>>

\* C26: every crawl returns after a bounded number of page fetches and tool
\* commands, whatever the network and the tool answer: no call chain of
\* crawl_blog and crawl_substack_with_browser grows until the interpreter
\* stops it, and a browser crawl spawns at most the commands of one session
\* (two opens, find, eval, SCROLL_ROUNDS scrolls and evals, close).
C26_CrawlTerminates ==
  call.op \in {"crawl_blog", "crawl_substack_with_browser"}
  => /\ call.exc # "RecursionError"
     /\ Len(call.cmds) <= 2 + 2 + 2 * SCROLL_ROUNDS + 1
     /\ Len(call.fetched) <= 2 * ARCHIVE_LINKS + LAST_PAGE

\* C27: when collect_blog runs on a URL whose Blog row has no feed_url and
\* the run found and parsed a feed, the row carries a feed_url and the
\* method of the run afterwards.
C27_LazyFeedDiscoveryPersisted ==
  [][(/\ call'.op = "collect" /\ call'.exc = None /\ call'.ret # 0
      /\ "parse_feed" \in Range(call'.log)
      /\ \E i \in 1..Len(blogs) :
           blogs[i].url = call'.url /\ blogs[i].feed_url = None)
     => /\ blogs'[call'.ret].feed_url # None
        /\ call'.method = "rss"
           => blogs'[call'.ret].collection_method = "rss"]_vars

\* the blog a collect_blog or update_blog call ingested posts for (0: none)
BlogOfCall(c) ==
  IF c.op = "collect" THEN c.ret
  ELSE IF c.op = "update" /\ c.exc = None THEN c.blog_id ELSE 0

\* C28: after collect_blog or update_blog has ingested a candidate for blog
\* B without error, the post with the candidate's URL is among
\* get_posts_by_blog(B), whatever other blogs and posts the store holds.
C28_IngestedPostBelongsToBlog ==
  (call.op \in {"collect", "update"} /\ call.exc = None
   /\ BlogOfCall(call) # 0)
  => \A i \in 1..Len(call.cands) :
       (call.cands[i].title # None /\ call.cands[i].url \notin call.existing)
       => call.cands[i].url \in Urls(GetPostsByBlog(posts, BlogOfCall(call)))

\* C29: every Post row has a non-empty URL: a candidate without URL, from a
\* feed entry or from a crawled page, is never ingested.
C29_EveryPostHasUrl ==
  \A i \in 1..Len(posts) : posts[i].url # ""

\* the part of its list that call th has worked off
Processed(th) == SubSeq(th.todo, 1, Len(th.todo) - Len(th.st.urls))

C30_ConcurrentUpdatesAsSerial ==
  (/\ Len(threads) = 2
   /\ \A t \in 1..2 : threads[t].op = "update" /\ threads[t].pc = "done")
  => LET alone == CrawlGeneric(threads[1].url, 0, threads[1].site).posts
     IN /\ \A t \in 1..2 : threads[t].st.posts = alone
        /\ Urls(posts) = Urls(call.cands) \cup Urls(alone)
        /\ threads[1].ret + threads[2].ret
             = Cardinality(Urls(alone) \ Urls(call.cands))

====
